---- MODULE Spec2Model ----
(***************************************************************************)
(* A model of the HTTP bridge of vscode-copilot-bridge: the polka server   *)
(* of src/http/server.ts (auth middleware, Gemini intercept, routes), the  *)
(* authorisation check of src/http/auth.ts and the three dialect adapters  *)
(* (routes/anthropic.ts, routes/gemini.ts, routes/responses.ts).           *)
(*                                                                         *)
(* Strings the code inspects character by character (header values, tokens *)
(* and the upstream SSE byte stream) are sequences of one-symbol strings,  *)
(* so that startsWith, slice, trim and indexOf are computed, not assumed.  *)
(* One action is one run of JavaScript between two suspension points: the  *)
(* event loop never interleaves two requests inside such a run.            *)
(***************************************************************************)
EXTENDS Integers, Sequences, FiniteSets, TLC

VARIABLES
  token,            \* getBridgeConfig().token, read afresh by the auth middleware
  cachedToken,      \* auth.ts module state
  cachedAuthHeader, \* auth.ts module state
  maxConcurrent,    \* config.maxConcurrent, captured when the server starts
  historyWindow,    \* config.historyWindow
  lmContent,        \* how the vscode API of the build holds a chat message's content
  activeRequests,   \* state.activeRequests
  req,              \* per connection: the request being served, or NoReq
  pc,               \* per connection: the suspension point the handler waits at
  res,              \* per connection: the ServerResponse
  handler,          \* per connection: the handler that was started, if any
  local,            \* per connection: the handler's local variables
  incs,             \* per connection: number of state.activeRequests++ executed
  decs,             \* per connection: number of state.activeRequests-- executed
  life              \* state.server, the servers listening, the calls of
                    \* startServer and stopServer under way

\* What no step of a handler changes after the request has arrived.
fixed == <<token, maxConcurrent, historyWindow, lmContent, cachedToken, cachedAuthHeader,
           life>>

\* What no step of startServer and stopServer changes.
serving == <<token, maxConcurrent, historyWindow, lmContent, cachedToken,
             cachedAuthHeader, activeRequests, req, pc, res, handler, local, incs, decs>>

vars == <<token, maxConcurrent, historyWindow, lmContent, cachedToken,
          cachedAuthHeader, activeRequests, req, pc, res, handler, local, incs, decs,
          life>>

----------------------------------------------------------------------------
(* Bounds *)

\* Number of connections served concurrently.
NumReqs == 2
\* Largest number of lines in an upstream SSE stream.
MaxLines == 3
\* Largest number of fragments the language model yields for /v1/responses.
MaxChunks == 2
\* Largest configured history window.
MaxWindow == 1
\* Largest number of entries in a request's message list.
MaxMsgs == 3
\* Largest number of startServer calls, and of stopServer calls, under way at
\* once.
MaxStarts == 2
\* Largest number of servers created in a run.
MaxServers == 3

Reqs == 1..NumReqs

----------------------------------------------------------------------------
(* Strings as sequences of symbols *)

Empty == <<>>
TokA == <<"a">>
TokB == <<"b">>
Bearer == <<"B", "e", "a", "r", "e", "r", " ">>
Basic == <<"B", "a", "s", "i", "c", " ">>

IsSpace(c) == c \in {" ", "\n"}

\* String.prototype.startsWith
StartsWith(s, p) == Len(s) >= Len(p) /\ SubSeq(s, 1, Len(p)) = p

\* String.prototype.slice(n)
Slice(s, n) == SubSeq(s, n + 1, Len(s))

RECURSIVE TrimStart(_)
TrimStart(s) ==
  IF s # <<>> /\ IsSpace(Head(s)) THEN TrimStart(Tail(s)) ELSE s

RECURSIVE TrimEnd(_)
TrimEnd(s) ==
  IF s # <<>> /\ IsSpace(s[Len(s)]) THEN TrimEnd(SubSeq(s, 1, Len(s) - 1)) ELSE s

\* String.prototype.trim
Trim(s) == TrimEnd(TrimStart(s))

\* String.prototype.indexOf for one symbol: 0-based, -1 when absent
IndexOf(s, c) ==
  IF \E i \in 1..Len(s) : s[i] = c
  THEN (CHOOSE i \in 1..Len(s) : s[i] = c /\ \A j \in 1..(i - 1) : s[j] # c) - 1
  ELSE -1

\* req.headers[name] is a string (the header was sent)
HasHeader(q, name) == name \in DOMAIN q.headers

----------------------------------------------------------------------------
(* JSON values, requests and responses *)

JStr(s) == [t |-> "string", v |-> s]
JBool(b) == [t |-> "boolean", v |-> b]
JNum(n) == [t |-> "number", v |-> n]
JArr(a) == [t |-> "array", v |-> a]

\* An object is a function from its field names; a missing field is undefined.
HasField(o, f) == f \in DOMAIN o

\* URL paths, as the tokens the server's prefix test and regular expressions see
PHealth == <<"/health">>
PModels == <<"/v1/models">>
PChat == <<"/v1/chat/completions">>
PResponses == <<"/v1/responses">>
PMessages == <<"/v1/messages">>
PGemini == <<"/v1/models/", "m", ":", "generateContent">>
PGeminiStream == <<"/v1/models/", "m", ":", "stream", "GenerateContent">>
PModelInfo == <<"/v1/models/", "m">>

NoReq == [method |-> "none"]

\* A fresh http.ServerResponse: statusCode 200, nothing written.
\* lateStatus / lateHeader record an assignment of statusCode / a setHeader call
\* made after the headers were flushed; ends counts the calls of res.end().
NewRes ==
  [statusCode |-> 200, contentType |-> "none", headersSent |-> FALSE,
   ended |-> FALSE, body |-> <<>>, ends |-> 0,
   lateStatus |-> FALSE, lateHeader |-> FALSE]

ErrorBody(message, type, code, reason) ==
  [kind |-> "error", message |-> message, type |-> type, code |-> code,
   reason |-> reason]

\* res.statusCode = s; res.setHeader('content-type', 'application/json');
\* res.end(JSON.stringify(b)), on a response whose headers are not yet sent
EndJson(rs, s, b) ==
  [rs EXCEPT !.statusCode = s, !.contentType = "application/json",
             !.headersSent = TRUE, !.ended = TRUE, !.ends = @ + 1,
             !.body = Append(@, b)]

\* utils.writeErrorResponse(res, status, message, type, code, reason?)
WriteErrorResponse(rs, status, message, type, code, reason) ==
  EndJson(rs, status, ErrorBody(message, type, code, reason))

\* utils.writeJson(res, status, body)
WriteJson(rs, status, b) == EndJson(rs, status, b)

\* utils.writeUnauthorized / writeTokenRequired / writeRateLimit / writeNotFound
WriteUnauthorized(rs) ==
  WriteErrorResponse(rs, 401, "unauthorized", "invalid_request_error",
                     "unauthorized", "undefined")
WriteTokenRequired(rs) ==
  WriteErrorResponse(rs, 401, "auth token required", "invalid_request_error",
                     "unauthorized", "undefined")
WriteRateLimit(rs) ==
  WriteErrorResponse(rs, 429, "too many requests", "rate_limit_error",
                     "rate_limit_exceeded", "undefined")
WriteNotFound(rs) ==
  WriteErrorResponse(rs, 404, "not found", "invalid_request_error",
                     "route_not_found", "undefined")

----------------------------------------------------------------------------
(* src/http/auth.ts *)

\* A faulty variant of IsAuthorized: a Bearer header is accepted whatever it holds.
IsAuthorizedAnyBearer(q, tok) ==
  IF tok = Empty THEN FALSE
  ELSE \/ /\ HasHeader(q, "authorization")
          /\ StartsWith(q.headers["authorization"], Bearer)
       \/ /\ HasHeader(q, "x-api-key")
          /\ Trim(q.headers["x-api-key"]) = tok
       \/ /\ HasHeader(q, "x-goog-api-key")
          /\ Trim(q.headers["x-goog-api-key"]) = tok

\* A faulty variant of IsAuthorized: the Bearer header is compared with the
\* memoized token, which is refreshed only while it is empty.
IsAuthorizedFromMemo(q, tok) ==
  IF tok = Empty THEN FALSE
  ELSE \/ /\ HasHeader(q, "authorization")
          /\ StartsWith(q.headers["authorization"], Bearer)
          /\ Trim(Slice(q.headers["authorization"], 7))
               = (IF cachedToken = Empty THEN tok ELSE cachedToken)
       \/ /\ HasHeader(q, "x-api-key")
          /\ Trim(q.headers["x-api-key"]) = tok
       \/ /\ HasHeader(q, "x-goog-api-key")
          /\ Trim(q.headers["x-goog-api-key"]) = tok

\* The verdict of isAuthorized(req, token).
IsAuthorized(q, tok) ==
  IF tok = Empty THEN FALSE
  ELSE \/ /\ HasHeader(q, "authorization")
          /\ StartsWith(q.headers["authorization"], Bearer)
          /\ Trim(Slice(q.headers["authorization"], 7)) = tok
       \/ /\ HasHeader(q, "x-api-key")
          /\ Trim(q.headers["x-api-key"]) = tok
       \/ /\ HasHeader(q, "x-goog-api-key")
          /\ Trim(q.headers["x-goog-api-key"]) = tok

\* The memo isAuthorized(req, token) leaves in cachedToken / cachedAuthHeader.
CacheAfter(tok, cache) ==
  IF tok = Empty THEN <<Empty, Empty>>
  ELSE IF tok # cache[1] THEN <<tok, Bearer \o tok>>
  ELSE cache

----------------------------------------------------------------------------
(* src/http/server.ts: the middleware chain and the route table *)

\* req.url of a request without a query string equals its path.
UrlIs(q, p) == q.path = p /\ DOMAIN q.query = {}

\* The auth middleware: "next", or the 401 it writes.
AuthOutcome(q, tok) ==
  IF UrlIs(q, PHealth) THEN "next"
  ELSE IF tok = Empty THEN "token_required"
  ELSE IF ~IsAuthorized(q, tok) THEN "unauthorized"
  ELSE "next"

\* The module state of auth.ts after the auth middleware ran on q.
AuthCache(q, tok, cache) ==
  IF UrlIs(q, PHealth) \/ tok = Empty THEN cache ELSE CacheAfter(tok, cache)

\* url.match(/:(?:stream)?[gG]enerateContent/)
MatchesGenerateContent(p) ==
  \E i \in 1..Len(p) :
    /\ p[i] = ":"
    /\ \/ i + 1 <= Len(p) /\ p[i + 1] \in {"generateContent", "GenerateContent"}
       \/ /\ i + 2 <= Len(p)
          /\ p[i + 1] = "stream"
          /\ p[i + 2] \in {"generateContent", "GenerateContent"}

\* The Gemini middleware intercepts the request instead of calling next().
IsGeminiCall(q) ==
  /\ q.method = "POST"
  /\ StartsWith(q.path, <<"/v1/models/">>)
  /\ MatchesGenerateContent(q.path)

\* urlWithoutQuery.match(/\/v1\/models\/([^:]+):.../)?.[1] || 'gpt-4o-copilot'
GeminiModelName(p) ==
  IF IndexOf(p, ":") >= 2 THEN SubSeq(p, 2, IndexOf(p, ":"))
  ELSE <<"gpt-4o-copilot">>

\* polka's route table: the handler registered for the method and pathname.
Route(q) ==
  CASE q.method = "GET" /\ q.path = PHealth -> "health"
    [] q.method = "GET" /\ q.path = PModels -> "models"
    [] q.method = "POST" /\ q.path = PChat -> "chat"
    [] q.method = "POST" /\ q.path = PResponses -> "responses"
    [] q.method = "POST" /\ q.path = PMessages -> "messages"
    [] OTHER -> "none"

\* The rate-limit test of the Gemini middleware and of the routes that have one.
RouteHasRateLimit(route) == route \in {"chat", "responses"}
\* A faulty variant: one request more than the limit is let in.
ThrottledAbove(n) == n > maxConcurrent

Throttled(n) == n >= maxConcurrent

----------------------------------------------------------------------------
(* The adapters' own credential extraction. Both return null when they find
   none; the callers only test the result for falsiness, so null is Empty. *)

\* routes/anthropic.ts getBearerOrXApiKey
GetBearerOrXApiKey(q) ==
  IF /\ HasHeader(q, "authorization")
     /\ StartsWith(q.headers["authorization"], Bearer)
     /\ Trim(Slice(q.headers["authorization"], 7)) # Empty
  THEN Trim(Slice(q.headers["authorization"], 7))
  ELSE IF HasHeader(q, "x-api-key") /\ Trim(q.headers["x-api-key"]) # Empty
  THEN Trim(q.headers["x-api-key"])
  ELSE Empty

\* routes/gemini.ts getBearerToken
GetBearerToken(q) ==
  IF /\ HasHeader(q, "authorization")
     /\ StartsWith(q.headers["authorization"], Bearer)
     /\ Trim(Slice(q.headers["authorization"], 7)) # Empty
  THEN Trim(Slice(q.headers["authorization"], 7))
  ELSE IF "key" \in DOMAIN q.query /\ q.query["key"] # Empty
  THEN q.query["key"]
  ELSE Empty

----------------------------------------------------------------------------
(* The requests the environment sends *)

NoFields == <<>>

Hi == <<"h", "i">>
Msg(role, content) == ("role" :> JStr(role)) @@ ("content" :> content)
GoodList == JArr(<<Msg("user", JStr(Hi))>>)
BadList == JArr(<<("role" :> JStr("user"))>>)
ModelM == JStr(<<"m">>)

Body(obj) == [malformed |-> FALSE, obj |-> obj]
MalformedBody == [malformed |-> TRUE, obj |-> NoFields]

\* A body every dialect accepts, answered in buffered mode.
AnyBody ==
  Body(("model" :> ModelM) @@ ("input" :> GoodList) @@ ("messages" :> GoodList)
       @@ ("contents" :> GoodList) @@ ("stream" :> JBool(FALSE)))

AiSdkBodies ==
  { Body(("model" :> ModelM) @@ ("input" :> GoodList)),
    Body(("model" :> JStr(Empty)) @@ ("input" :> GoodList)),
    Body(("model" :> JNum(5)) @@ ("input" :> GoodList)),
    Body("input" :> GoodList),
    Body("model" :> ModelM),
    Body(("model" :> ModelM) @@ ("input" :> BadList)),
    Body(NoFields),
    MalformedBody }

AnthropicBodies ==
  { Body(("model" :> ModelM) @@ ("messages" :> GoodList) @@ ("stream" :> JBool(FALSE))),
    Body(("model" :> ModelM) @@ ("messages" :> GoodList) @@ ("stream" :> JBool(TRUE))),
    Body(("model" :> ModelM) @@ ("messages" :> GoodList)),
    Body(("messages" :> GoodList) @@ ("stream" :> JBool(FALSE))),
    Body("messages" :> GoodList),
    Body(NoFields),
    MalformedBody }

GeminiBodies ==
  { Body("contents" :> GoodList), Body(NoFields), MalformedBody }

NoQuery == <<>>
NoHeaders == <<>>

\* The ways a caller presents, or fails to present, a credential.
Credentials ==
  { [headers |-> NoHeaders, query |-> NoQuery],
    [headers |-> "authorization" :> (Bearer \o TokA), query |-> NoQuery],
    [headers |-> "authorization" :> (Bearer \o TokB), query |-> NoQuery],
    [headers |-> "authorization" :> (Bearer \o <<" ">> \o TokA \o <<" ">>),
     query |-> NoQuery],
    [headers |-> "authorization" :> (Basic \o TokA), query |-> NoQuery],
    [headers |-> "authorization" :> Bearer, query |-> NoQuery],
    [headers |-> "x-api-key" :> TokA, query |-> NoQuery],
    [headers |-> "x-api-key" :> TokB, query |-> NoQuery],
    [headers |-> "x-goog-api-key" :> TokA, query |-> NoQuery],
    [headers |-> NoHeaders, query |-> "key" :> TokA],
    [headers |-> "authorization" :> (Bearer \o TokA), query |-> "key" :> TokB],
    [headers |-> "authorization" :> (Bearer \o TokB), query |-> "key" :> TokA],
    [headers |-> ("authorization" :> (Bearer \o TokB)) @@ ("x-api-key" :> TokA),
     query |-> NoQuery],
    [headers |-> ("authorization" :> (Bearer \o TokB)) @@ ("x-goog-api-key" :> TokA),
     query |-> "key" :> TokA] }

GoodCredential ==
  [headers |-> "authorization" :> (Bearer \o TokA), query |-> NoQuery]

Endpoints ==
  { <<"GET", PHealth>>, <<"GET", PModels>>, <<"POST", PChat>>,
    <<"POST", PResponses>>, <<"POST", PMessages>>, <<"POST", PGemini>>,
    <<"POST", PGeminiStream>>, <<"GET", PMessages>>, <<"POST", PModelInfo>> }

Request(e, c, b) ==
  [method |-> e[1], path |-> e[2], query |-> c.query, headers |-> c.headers,
   body |-> b]

\* Every endpoint under every credential, and every body under a good one.
AllRequests ==
  {Request(e, c, AnyBody) : e \in Endpoints, c \in Credentials}
  \cup {Request(<<"POST", PResponses>>, GoodCredential, b) : b \in AiSdkBodies}
  \cup {Request(<<"POST", PMessages>>, GoodCredential, b) : b \in AnthropicBodies}
  \cup {Request(<<"POST", PGemini>>, GoodCredential, b) : b \in GeminiBodies}

ConfigTokens == {Empty, TokA}

\* config.historyWindow: the non-negative windows
Windows == 0..MaxWindow

\* LanguageModelChatMessage.content is a string in the first vscode API that has
\* the class, and an array of LanguageModelTextPart objects in the later ones.
LMContentShapes == {"string", "parts"}

----------------------------------------------------------------------------
(* The conversions of a request's message list *)

\* Array.prototype.join
RECURSIVE Join(_, _)
Join(ss, sep) ==
  IF ss = <<>> THEN <<>>
  ELSE IF Len(ss) = 1 THEN ss[1]
  ELSE ss[1] \o sep \o Join(Tail(ss), sep)

\* part.text, '' where join finds it undefined
PartText(part) == IF HasField(part, "text") THEN part["text"].v ELSE <<>>

\* part.type
PartType(part) == IF HasField(part, "type") THEN part["type"].v ELSE "undefined"

\* msg.role
RoleOf(msg) == IF HasField(msg, "role") THEN msg["role"].v ELSE "undefined"

\* responses.ts extractTextContent
ExtractTextContent(content) ==
  IF content.t = "string" THEN content.v
  ELSE LET kept == SelectSeq(content.v,
                             LAMBDA part : PartType(part) \in {"input_text", "output_text"})
       IN Join([i \in 1..Len(kept) |-> PartText(kept[i])], <<>>)

\* responses.ts convertAiSdkMessagesToLM
ConvertAiSdkMessagesToLM(messages) ==
  [i \in 1..Len(messages) |->
     [role |-> IF RoleOf(messages[i]) = "assistant" THEN "assistant" ELSE "user",
      text |-> ExtractTextContent(messages[i]["content"])]]

\* Array.prototype.slice(-k): -0 is 0, so slice(-0) is the whole array
SliceFromEnd(list, k) ==
  IF k = 0 THEN list
  ELSE IF k > 0 THEN SubSeq(list, (IF Len(list) > k THEN Len(list) - k ELSE 0) + 1,
                            Len(list))
  ELSE SubSeq(list, (IF -k < Len(list) THEN -k ELSE Len(list)) + 1, Len(list))

\* responses.ts 153: lmMessages.slice(-config.historyWindow * 2)
RecentMessages(lmMessages, window) == SliceFromEnd(lmMessages, window * 2)

\* responses.ts 181-184: a string content counts whole; of an array content
\* only the elements that are themselves strings count, and a
\* LanguageModelTextPart is an object
InputText(recentMessages, shape) ==
  Join([i \in 1..Len(recentMessages) |->
          IF shape = "string" THEN recentMessages[i].text ELSE <<>>], <<>>)

\* Math.ceil(n / 4)
CeilQuarter(n) == (n + 3) \div 4

\* responses.ts 211-215
Usage(inputText, fullContent) ==
  [input_tokens |-> CeilQuarter(Len(inputText)),
   output_tokens |-> CeilQuarter(Len(fullContent)),
   total_tokens |-> CeilQuarter(Len(inputText)) + CeilQuarter(Len(fullContent))]

\* anthropic.ts 176: toText
ToText(msg) ==
  IF ~HasField(msg, "content") THEN <<>>
  ELSE LET c == msg["content"]
       IN IF c.t = "string" THEN c.v
          ELSE IF c.t = "array" /\ c.v # <<>> /\ PartType(c.v[1]) = "text"
          THEN PartText(c.v[1])
          ELSE <<>>

\* anthropic.ts 177-179: coreMessages
CoreMessages(messages) ==
  LET kept == SelectSeq(messages, LAMBDA m : RoleOf(m) \in {"user", "assistant"})
  IN [i \in 1..Len(kept) |-> [role |-> RoleOf(kept[i]), text |-> ToText(kept[i])]]

\* A faulty variant: the system message is put in front whatever it holds.
ToOpenAIMessagesAlways(coreMessages, system) ==
  <<[role |-> "system", text |-> system]>> \o coreMessages

\* anthropic.ts toOpenAIMessages
ToOpenAIMessages(coreMessages, system) ==
  IF system # <<>> /\ Trim(system) # <<>>
  THEN <<[role |-> "system", text |-> system]>> \o coreMessages
  ELSE coreMessages

\* body.system ?? '' and body.messages ?? []
BodySystem(obj) == IF HasField(obj, "system") THEN obj["system"].v ELSE <<>>
BodyMessages(obj) == IF HasField(obj, "messages") THEN obj["messages"].v ELSE <<>>

\* gemini.ts 105: the truthy texts of the parts, joined by a newline
GeminiText(content) ==
  IF ~HasField(content, "parts") THEN <<>>
  ELSE LET kept == SelectSeq(content["parts"].v, LAMBDA part : PartText(part) # <<>>)
       IN Join([i \in 1..Len(kept) |-> PartText(kept[i])], <<"\n">>)

\* gemini.ts 103-110: messages
GeminiMessages(contents) ==
  [i \in 1..Len(contents) |->
     [role |-> IF RoleOf(contents[i]) = "model" THEN "assistant"
               ELSE IF RoleOf(contents[i]) \notin {"undefined", ""}
               THEN RoleOf(contents[i])
               ELSE "user",
      text |-> GeminiText(contents[i])]]

\* geminiReq.contents, undefined when absent
BodyContents(obj) == IF HasField(obj, "contents") THEN obj["contents"].v ELSE <<>>

----------------------------------------------------------------------------
(* Initial state *)

NewLocal ==
  [tok |-> Empty, stream |-> FALSE, called |-> FALSE, upstream |-> "none",
   source |-> <<>>, split |-> FALSE, bytes |-> <<>>, buffer |-> <<>>, fullText |-> <<>>, frags |-> <<>>,
   pending |-> <<>>, model |-> <<>>, sent |-> <<>>, completion |-> NoFields,
   hasLM |-> TRUE, hasDispose |-> FALSE, sources |-> 0, disposed |-> 0,
   respDisposed |-> 0, exit |-> "none"]

\* The calls of startServer, and of stopServer, that can be under way at once.
StartCalls == 1..MaxStarts
StopCalls == 1..MaxStarts

\* state.server is undefined, nothing listens, no call is under way. A call
\* of startServer waits for the listen callback of the server start[c], a call
\* of stopServer for the close callback of the server closing[c]; 0 is none.
NotStarted ==
  [port |-> "fixed", server |-> 0, listening |-> {}, created |-> 0,
   start |-> [c \in StartCalls |-> 0], closing |-> [c \in StopCalls |-> 0]]

\* startServer has completed once: its server listens and is in state.server.
Running == [NotStarted EXCEPT !.server = 1, !.listening = {1}, !.created = 1]

InitState(l) ==
  /\ life = l
  /\ token \in ConfigTokens
  /\ maxConcurrent \in 1..NumReqs
  /\ historyWindow \in Windows
  /\ lmContent \in LMContentShapes
  /\ cachedToken = Empty
  /\ cachedAuthHeader = Empty
  /\ activeRequests = 0
  /\ req = [r \in Reqs |-> NoReq]
  /\ pc = [r \in Reqs |-> "idle"]
  /\ res = [r \in Reqs |-> NewRes]
  /\ handler = [r \in Reqs |-> "none"]
  /\ local = [r \in Reqs |-> NewLocal]
  /\ incs = [r \in Reqs |-> 0]
  /\ decs = [r \in Reqs |-> 0]

\* The server is running and no request has arrived.
Init == InitState(Running)

----------------------------------------------------------------------------
(* A request arrives: the middleware chain, the route's rate-limit test and
   the handler's code up to its first await run without suspension. *)

Finish(r, rs) ==
  /\ res' = [res EXCEPT ![r] = rs]
  /\ pc' = [pc EXCEPT ![r] = "done"]

Suspend(r, rs, at) ==
  /\ res' = [res EXCEPT ![r] = rs]
  /\ pc' = [pc EXCEPT ![r] = at]

\* The request q is read on connection r and passes through the auth middleware.
Arrive(r, q) ==
  /\ pc[r] = "idle"
  /\ life.listening # {}
  /\ req' = [req EXCEPT ![r] = q]
  /\ cachedToken' = AuthCache(q, token, <<cachedToken, cachedAuthHeader>>)[1]
  /\ cachedAuthHeader' = AuthCache(q, token, <<cachedToken, cachedAuthHeader>>)[2]
  /\ UNCHANGED <<token, maxConcurrent, historyWindow, lmContent, life>>

\* server.ts 42-53: writeTokenRequired / writeUnauthorized, no next()
AuthReject(r, Q) ==
  \E q \in Q :
    /\ Arrive(r, q)
    /\ AuthOutcome(q, token) # "next"
    /\ Finish(r, IF AuthOutcome(q, token) = "token_required"
                 THEN WriteTokenRequired(NewRes) ELSE WriteUnauthorized(NewRes))
    /\ UNCHANGED <<activeRequests, handler, local, incs, decs>>

\* server.ts 71-77: the Gemini middleware's 429
\* A faulty variant: after the handler the middleware goes on to next(), no
\* route matches the path and onNoMatch answers as well.
InterceptFallsThrough(rs) == WriteNotFound(rs)

\* server.ts 89-91: the middleware returns once handleGeminiGenerateContent
\* is done, without calling next()
InterceptReturns(rs) == rs

GeminiThrottled(r, Q) ==
  \E q \in Q :
    /\ Arrive(r, q)
    /\ AuthOutcome(q, token) = "next"
    /\ IsGeminiCall(q)
    /\ Throttled(activeRequests)
    /\ Finish(r, WriteRateLimit(NewRes))
    /\ UNCHANGED <<activeRequests, handler, local, incs, decs>>

\* gemini.ts 78-86: handleGeminiGenerateContent finds no credential of its own
GeminiNoToken(r, Q) ==
  \E q \in Q :
    /\ Arrive(r, q)
    /\ AuthOutcome(q, token) = "next"
    /\ IsGeminiCall(q)
    /\ ~Throttled(activeRequests)
    /\ GetBearerToken(q) = Empty
    /\ handler' = [handler EXCEPT ![r] = "gemini"]
    /\ Finish(r, InterceptReturns(EndJson(NewRes, 401,
                ErrorBody("unauthorized", "invalid_request_error", "unauthorized",
                          "undefined"))))
    /\ UNCHANGED <<activeRequests, local, incs, decs>>

\* server.ts 79-91, gemini.ts 72-92: the handler starts and awaits readJson
GeminiStart(r, Q) ==
  \E q \in Q :
    /\ Arrive(r, q)
    /\ AuthOutcome(q, token) = "next"
    /\ IsGeminiCall(q)
    /\ ~Throttled(activeRequests)
    /\ GetBearerToken(q) # Empty
    /\ handler' = [handler EXCEPT ![r] = "gemini"]
    /\ local' = [local EXCEPT ![r].tok = GetBearerToken(q)]
    /\ Suspend(r, NewRes, "gem_readJson")
    /\ UNCHANGED <<activeRequests, incs, decs>>

\* server.ts 31-33: onNoMatch
RouteNoMatch(r, Q) ==
  \E q \in Q :
    /\ Arrive(r, q)
    /\ AuthOutcome(q, token) = "next"
    /\ ~IsGeminiCall(q)
    /\ Route(q) = "none"
    /\ Finish(r, WriteNotFound(NewRes))
    /\ UNCHANGED <<activeRequests, handler, local, incs, decs>>

\* server.ts 113-119: handleHealthCheck / handleModelsRequest answer
ServeCollaborator(r, Q) ==
  \E q \in Q :
    /\ Arrive(r, q)
    /\ AuthOutcome(q, token) = "next"
    /\ ~IsGeminiCall(q)
    /\ Route(q) \in {"health", "models"}
    /\ handler' = [handler EXCEPT ![r] = Route(q)]
    /\ local' = [local EXCEPT ![r].exit = "success"]
    /\ Finish(r, WriteJson(NewRes, 200, [kind |-> Route(q)]))
    /\ UNCHANGED <<activeRequests, incs, decs>>

\* server.ts 122-128, 140-146: the route's 429
RouteThrottled(r, Q) ==
  \E q \in Q :
    /\ Arrive(r, q)
    /\ AuthOutcome(q, token) = "next"
    /\ ~IsGeminiCall(q)
    /\ RouteHasRateLimit(Route(q))
    /\ Throttled(activeRequests)
    /\ Finish(r, WriteRateLimit(NewRes))
    /\ UNCHANGED <<activeRequests, handler, local, incs, decs>>

\* server.ts 130-131: handleChatCompletion starts
ChatStart(r, Q) ==
  \E q \in Q :
    /\ Arrive(r, q)
    /\ AuthOutcome(q, token) = "next"
    /\ ~IsGeminiCall(q)
    /\ Route(q) = "chat"
    /\ ~Throttled(activeRequests)
    /\ handler' = [handler EXCEPT ![r] = "chat"]
    /\ activeRequests' = activeRequests + 1
    /\ Suspend(r, NewRes, "chat_run")
    /\ UNCHANGED <<local, incs, decs>>

\* server.ts 148-149, responses.ts 119-124: state.activeRequests++, await readJson
ResponsesStart(r, Q) ==
  \E q \in Q :
    /\ Arrive(r, q)
    /\ AuthOutcome(q, token) = "next"
    /\ ~IsGeminiCall(q)
    /\ Route(q) = "responses"
    /\ ~Throttled(activeRequests)
    /\ handler' = [handler EXCEPT ![r] = "responses"]
    /\ activeRequests' = activeRequests + 1
    /\ incs' = [incs EXCEPT ![r] = @ + 1]
    /\ Suspend(r, NewRes, "aisdk_readJson")
    /\ UNCHANGED <<local, decs>>

\* anthropic.ts 160-166: anthropicMessages finds no credential of its own
MessagesNoToken(r, Q) ==
  \E q \in Q :
    /\ Arrive(r, q)
    /\ AuthOutcome(q, token) = "next"
    /\ ~IsGeminiCall(q)
    /\ Route(q) = "messages"
    /\ GetBearerOrXApiKey(q) = Empty
    /\ handler' = [handler EXCEPT ![r] = "messages"]
    /\ Finish(r, EndJson(NewRes, 401,
                ErrorBody("unauthorized", "invalid_request_error", "unauthorized",
                          "undefined")))
    /\ UNCHANGED <<activeRequests, local, incs, decs>>

\* server.ts 157, anthropic.ts 157-173: the handler starts and awaits the body
MessagesStart(r, Q) ==
  \E q \in Q :
    /\ Arrive(r, q)
    /\ AuthOutcome(q, token) = "next"
    /\ ~IsGeminiCall(q)
    /\ Route(q) = "messages"
    /\ GetBearerOrXApiKey(q) # Empty
    /\ handler' = [handler EXCEPT ![r] = "messages"]
    /\ local' = [local EXCEPT ![r].tok = GetBearerOrXApiKey(q)]
    /\ Suspend(r, NewRes, "anth_body")
    /\ UNCHANGED <<activeRequests, incs, decs>>

----------------------------------------------------------------------------
(* routes/responses.ts: handleAiSdkResponse *)

\* isAiSdkRequest(body)
IsAiSdkRequest(obj) ==
  /\ HasField(obj, "model") /\ obj["model"].t = "string"
  /\ HasField(obj, "input") /\ obj["input"].t = "array"
  /\ \A i \in 1..Len(obj["input"].v) :
       LET msg == obj["input"].v[i]
       IN /\ HasField(msg, "role")
          /\ HasField(msg, "content")
          /\ msg["content"].t \in {"string", "array"}

\* A faulty variant of ModelResolutionError: every failure is answered 503.
ModelResolutionErrorFlat(rs, model, hasLanguageModels) ==
  WriteErrorResponse(rs, 503, "Copilot unavailable", "server_error",
                     "copilot_unavailable",
                     IF hasLanguageModels THEN "copilot_model_unavailable"
                     ELSE "missing_language_model_api")

\* The response to a request whose model getModel did not find.
ModelResolutionError(rs, model, hasLanguageModels) ==
  IF model # Empty /\ hasLanguageModels
  THEN WriteErrorResponse(rs, 404, "model not found", "invalid_request_error",
                          "model_not_found", "not_found")
  ELSE WriteErrorResponse(rs, 503, "Copilot unavailable", "server_error",
                          "copilot_unavailable",
                          IF hasLanguageModels THEN "copilot_model_unavailable"
                          ELSE "missing_language_model_api")

\* The catch clause of handleAiSdkResponse.
AiSdkCatch(rs) ==
  WriteErrorResponse(rs, 500, "internal_error", "server_error", "internal_error",
                     "undefined")

\* A faulty variant of CounterAfterExit: the decrement sits at the end of the
\* try block, so it is skipped when the block throws.
CounterAfterExitLeaky(n, exit) == IF exit = "throw" THEN n ELSE n - 1

\* The outer finally clause: state.activeRequests-- whether the try block
\* returned or threw.
CounterAfterExit(n, exit) == n - 1

\* The handler leaves through its finally clause.
AiSdkExit(r, rs, exit) ==
  /\ activeRequests' = CounterAfterExit(activeRequests, exit)
  /\ decs' = [decs EXCEPT ![r] = @ + (activeRequests - activeRequests')]
  /\ Finish(r, rs)
  /\ UNCHANGED <<fixed, req, handler, incs>>

\* readJson(req) throws: the body is not JSON
AiSdkBodyThrows(r) ==
  /\ pc[r] = "aisdk_readJson"
  /\ req[r].body.malformed
  /\ local' = [local EXCEPT ![r].exit = "readJson"]
  /\ AiSdkExit(r, AiSdkCatch(res[r]), "throw")

\* isAiSdkRequest(body) is false: 400, return
AiSdkInvalid(r) ==
  /\ pc[r] = "aisdk_readJson"
  /\ ~req[r].body.malformed
  /\ ~IsAiSdkRequest(req[r].body.obj)
  /\ AiSdkExit(r, WriteErrorResponse(res[r], 400, "invalid request format",
                                     "invalid_request_error", "invalid_payload",
                                     "undefined"), "return")
  /\ local' = [local EXCEPT ![r].exit = "validation"]

\* the body is valid: await getModel(false, body.model)
AiSdkValid(r) ==
  /\ pc[r] = "aisdk_readJson"
  /\ ~req[r].body.malformed
  /\ IsAiSdkRequest(req[r].body.obj)
  /\ pc' = [pc EXCEPT ![r] = "aisdk_getModel"]
  /\ UNCHANGED <<fixed, activeRequests, req, res, handler, local, incs, decs>>

\* getModel throws
AiSdkGetModelThrows(r) ==
  /\ pc[r] = "aisdk_getModel"
  /\ local' = [local EXCEPT ![r].exit = "getModel"]
  /\ AiSdkExit(r, AiSdkCatch(res[r]), "throw")

\* getModel returns no model: 404 or 503 by hasLMApi(), return
AiSdkNoModel(r) ==
  /\ pc[r] = "aisdk_getModel"
  /\ \E hasLM \in BOOLEAN :
       /\ local' = [local EXCEPT ![r].hasLM = hasLM, ![r].exit = "resolution"]
       /\ AiSdkExit(r, ModelResolutionError(res[r], req[r].body.obj["model"].v, hasLM),
                    "return")

\* getModel returns a model: a CancellationTokenSource is created and
\* model.sendRequest is called and awaited
AiSdkModelFound(r) ==
  /\ pc[r] = "aisdk_getModel"
  /\ local' = [local EXCEPT
                  ![r].sources = @ + 1, ![r].called = TRUE,
                  ![r].sent = RecentMessages(
                                ConvertAiSdkMessagesToLM(req[r].body.obj["input"].v),
                                historyWindow)]
  /\ pc' = [pc EXCEPT ![r] = "aisdk_sendRequest"]
  /\ UNCHANGED <<fixed, activeRequests, req, res, handler, incs, decs>>

\* A faulty variant: the source is disposed after the response is written,
\* which an exception skips.
SourceDisposalsOnReturn(n, exit) == IF exit = "throw" THEN n ELSE n + 1

\* finally { cancellationToken.dispose() }: on every way out of the block
SourceDisposals(n, exit) == n + 1

\* finally { if ('dispose' in response && ...) response.dispose() }
ResponseDisposals(n, hasDispose) == IF hasDispose THEN n + 1 ELSE n

\* model.sendRequest throws: inner finally, catch, outer finally
AiSdkSendRequestThrows(r) ==
  /\ pc[r] = "aisdk_sendRequest"
  /\ local' = [local EXCEPT ![r].disposed = SourceDisposals(@, "throw"),
                            ![r].exit = "sendRequest"]
  /\ AiSdkExit(r, AiSdkCatch(res[r]), "throw")

\* model.sendRequest returns a response whose text will yield the fragments
\* of one of the sequences in R, and which has a dispose function or, as the
\* vscode API declares it, has none: the iteration of response.text starts
AiSdkSendRequestReturns(r, R, D) ==
  /\ pc[r] = "aisdk_sendRequest"
  /\ \E fragments \in R, hasDispose \in D :
       local' = [local EXCEPT ![r].pending = fragments, ![r].model = fragments,
                              ![r].hasDispose = hasDispose]
  /\ pc' = [pc EXCEPT ![r] = "aisdk_iter"]
  /\ UNCHANGED <<fixed, activeRequests, req, res, handler, incs, decs>>

\* the next fragment arrives: fullContent += chunk
AiSdkChunk(r) ==
  /\ pc[r] = "aisdk_iter"
  /\ local[r].pending # <<>>
  /\ local' = [local EXCEPT ![r].pending = Tail(@),
                            ![r].frags = Append(@, Head(local[r].pending)),
                            ![r].fullText = @ \o Head(local[r].pending)]
  /\ UNCHANGED <<fixed, activeRequests, req, pc, res, handler, incs, decs>>

\* the iteration throws: response.dispose(), cancellationToken.dispose(), catch
AiSdkIterThrows(r) ==
  /\ pc[r] = "aisdk_iter"
  /\ local' = [local EXCEPT
                  ![r].disposed = SourceDisposals(@, "throw"),
                  ![r].respDisposed = ResponseDisposals(@, local[r].hasDispose),
                  ![r].exit = "iteration"]
  /\ AiSdkExit(r, AiSdkCatch(res[r]), "throw")

\* the iteration ends: the response is built and written with writeJson
AiSdkComplete(r) ==
  /\ pc[r] = "aisdk_iter"
  /\ local[r].pending = <<>>
  /\ local' = [local EXCEPT
                  ![r].disposed = SourceDisposals(@, "return"),
                  ![r].respDisposed = ResponseDisposals(@, local[r].hasDispose),
                  ![r].exit = "success"]
  /\ AiSdkExit(r, WriteJson(res[r], 200,
                            [kind |-> "response", text |-> local[r].fullText,
                             usage |-> Usage(InputText(local[r].sent, lmContent),
                                             local[r].fullText)]),
               "return")

\* the iteration ends and writeJson throws before it writes: catch, 500
AiSdkWriteThrows(r) ==
  /\ pc[r] = "aisdk_iter"
  /\ local[r].pending = <<>>
  /\ local' = [local EXCEPT
                  ![r].disposed = SourceDisposals(@, "throw"),
                  ![r].respDisposed = ResponseDisposals(@, local[r].hasDispose),
                  ![r].exit = "write"]
  /\ AiSdkExit(r, AiSdkCatch(res[r]), "throw")

----------------------------------------------------------------------------
(* routes/chat.ts: handleChatCompletion, the generic chat adapter *)

ChatStatuses == {200, 400, 404, 503, 500}

\* The handler answers and releases the counter.
ChatRun(r) ==
  /\ pc[r] = "chat_run"
  /\ \E st \in ChatStatuses :
       /\ local' = [local EXCEPT ![r].exit = IF st = 200 THEN "success" ELSE "chat"]
       /\ Finish(r, IF st = 200 THEN WriteJson(res[r], 200, [kind |-> "chat"])
                    ELSE WriteErrorResponse(res[r], st, "chat failed",
                           IF st \in {400, 404} THEN "invalid_request_error"
                           ELSE "server_error", "chat_error", "undefined"))
  /\ activeRequests' = activeRequests - 1
  /\ UNCHANGED <<fixed, req, handler, incs, decs>>

----------------------------------------------------------------------------
(* The internal call fetch(origin + '/v1/chat/completions') of the Anthropic
   and Gemini adapters: the status it comes back with, "network" when fetch
   itself rejects, "undecodable" when resp.json() rejects. *)

UpstreamFailures == {"401", "404", "429", "503", "network", "undecodable"}

UpstreamMessage(o) ==
  CASE o = "401" -> "Upstream /v1/chat/completions unauthorized"
    [] o = "404" -> "Upstream /v1/chat/completions failed: 404"
    [] o = "429" -> "Upstream /v1/chat/completions failed: 429"
    [] o = "503" -> "Upstream /v1/chat/completions failed: 503"
    [] o = "network" -> "fetch failed"
    [] OTHER -> "Unexpected token in JSON"

----------------------------------------------------------------------------
(* src/http/auth.ts 51-52 (formatter): the sanitizer returns its argument *)

\* A faulty variant: the repairs below the return are reached, the last of
\* which trims the text.
FixBoltArtifactFormatRepairing(text) == Trim(text)

FixBoltArtifactFormat(text) == text

----------------------------------------------------------------------------
(* routes/anthropic.ts *)

Sse(event, text) == [kind |-> "sse", event |-> event, text |-> text]

\* writeSSE(res, event, data): two res.write calls, which flush the headers
WriteSSE(rs, ev) ==
  [rs EXCEPT !.headersSent = TRUE, !.body = Append(@, ev)]

RECURSIVE WriteAll(_, _)
WriteAll(rs, evs) ==
  IF evs = <<>> THEN rs ELSE WriteAll(WriteSSE(rs, Head(evs)), Tail(evs))

\* res.end()
End(rs) == [rs EXCEPT !.headersSent = TRUE, !.ended = TRUE, !.ends = @ + 1]

\* anthropic.ts 206-213: status, headers and the two opening frames
StreamPrologue(rs) ==
  WriteAll([rs EXCEPT !.statusCode = 200, !.contentType = "text/event-stream"],
           <<Sse("message_start", <<>>), Sse("content_block_start", <<>>)>>)

\* A faulty variant of DeltaEvents: the fragments of one read are coalesced.
RECURSIVE Concat(_)
Concat(ss) == IF ss = <<>> THEN <<>> ELSE Head(ss) \o Concat(Tail(ss))
DeltaEventsCoalesced(fragments) ==
  IF fragments = <<>> THEN <<>>
  ELSE <<Sse("content_block_delta", Concat(fragments))>>

\* anthropic.ts 216-222: one content_block_delta per non-empty fragment
DeltaEvents(fragments) ==
  LET kept == SelectSeq(fragments, LAMBDA f : f # <<>>)
  IN [i \in 1..Len(kept) |-> Sse("content_block_delta", kept[i])]

\* A faulty variant of StreamEpilogue: message_delta precedes content_block_stop.
StreamEpilogueSwapped ==
  <<Sse("message_delta", <<"end_turn">>), Sse("content_block_stop", <<>>),
    Sse("message_stop", <<>>)>>

\* anthropic.ts 236-238: the three closing frames
StreamEpilogue ==
  <<Sse("content_block_stop", <<>>), Sse("message_delta", <<"end_turn">>),
    Sse("message_stop", <<>>)>>

\* JSON.parse(payload) succeeds: an object { choices: [{ delta: { content } }] }
\* is written "{", the symbols of content, "}".
ParsesAsJson(p) ==
  /\ Len(p) >= 2
  /\ p[1] = "{"
  /\ p[Len(p)] = "}"
  /\ \A i \in 2..(Len(p) - 1) : p[i] \in {"a", "b"}

\* A faulty variant of DeltaContent: only the first symbol of the content is kept.
DeltaContentFirst(p) == SubSeq(p, 2, 2)

\* evt?.choices?.[0]?.delta?.content ?? ''
DeltaContent(p) == SubSeq(p, 2, Len(p) - 1)

\* A faulty variant: the chunk replaces the buffer, and what was left of the
\* last line is lost.
AppendChunkReplacing(buffer, chunk) == chunk

\* buffer += decoder.decode(value, { stream: true })
AppendChunk(buffer, chunk) == buffer \o chunk

\* runLMStream 135-153: the lines of the buffer are consumed; "data:" is one
\* symbol, so line.slice(5) drops one symbol. The result is the fragments
\* yielded, the buffer left and whether the generator returned.
RECURSIVE Drain(_, _)
Drain(buffer, yielded) ==
  IF IndexOf(buffer, "\n") < 0
  THEN [frags |-> yielded, buffer |-> buffer, returned |-> FALSE]
  ELSE LET idx == IndexOf(buffer, "\n")
           line == Trim(SubSeq(buffer, 1, idx))
           rest == Slice(buffer, idx + 1)
           payload == Trim(Slice(line, 1))
       IN IF ~StartsWith(line, <<"data:">>) THEN Drain(rest, yielded)
          ELSE IF payload = <<>> \/ payload = <<"[DONE]">>
          THEN [frags |-> yielded, buffer |-> rest, returned |-> TRUE]
          ELSE IF ParsesAsJson(payload) /\ DeltaContent(payload) # <<>>
          THEN Drain(rest, Append(yielded, DeltaContent(payload)))
          ELSE Drain(rest, yielded)

\* The catch clause of anthropicMessages: res.statusCode = 500, setHeader, end.
\* Once the headers are flushed the assignment has no effect on the wire and
\* setHeader throws ERR_HTTP_HEADERS_SENT, so end() is not reached.
AnthropicCatch(rs, message) ==
  IF ~rs.headersSent
  THEN EndJson(rs, 500, ErrorBody(message, "server_error", "undefined", "undefined"))
  ELSE [rs EXCEPT !.lateStatus = TRUE, !.lateHeader = TRUE]

\* server.ts 22-30: polka's onError, when polka routes the rejection to it
OnError(rs) ==
  IF ~rs.headersSent
  THEN WriteErrorResponse(rs, 500, "internal_error", "server_error",
                          "internal_error", "undefined")
  ELSE End(rs)

\* An exception reaches the catch clause. When the clause itself throws, the
\* handler's promise rejects: polka either hands the rejection to onError or
\* leaves it unhandled, depending on its version.
AnthropicFail(r, message) ==
  /\ LET rs == AnthropicCatch(res[r], message)
     IN IF rs.ended THEN Finish(r, rs)
        ELSE \E handled \in BOOLEAN : Finish(r, IF handled THEN OnError(rs) ELSE rs)
  /\ UNCHANGED <<fixed, activeRequests, req, handler, incs, decs>>

\* body.stream ?? true
StreamFlag(obj) == IF HasField(obj, "stream") THEN obj["stream"].v ELSE TRUE

\* JSON.parse(raw) throws
AnthBodyThrows(r) ==
  /\ pc[r] = "anth_body"
  /\ req[r].body.malformed
  /\ local' = [local EXCEPT ![r].exit = "body"]
  /\ AnthropicFail(r, "Unexpected token in JSON")

\* buffered mode: runLMFull issues the internal call
AnthBuffered(r) ==
  /\ pc[r] = "anth_body"
  /\ ~req[r].body.malformed
  /\ ~StreamFlag(req[r].body.obj)
  /\ local' = [local EXCEPT
                  ![r].stream = FALSE, ![r].called = TRUE,
                  ![r].sent = ToOpenAIMessages(CoreMessages(BodyMessages(req[r].body.obj)),
                                               BodySystem(req[r].body.obj))]
  /\ pc' = [pc EXCEPT ![r] = "anth_fullFetch"]
  /\ UNCHANGED <<fixed, activeRequests, req, res, handler, incs, decs>>

\* streaming mode: the opening frames are written, runLMStream issues the call
AnthStreaming(r) ==
  /\ pc[r] = "anth_body"
  /\ ~req[r].body.malformed
  /\ StreamFlag(req[r].body.obj)
  /\ local' = [local EXCEPT
                  ![r].stream = TRUE, ![r].called = TRUE,
                  ![r].sent = ToOpenAIMessages(CoreMessages(BodyMessages(req[r].body.obj)),
                                               BodySystem(req[r].body.obj))]
  /\ Suspend(r, StreamPrologue(res[r]), "anth_streamFetch")
  /\ UNCHANGED <<fixed, activeRequests, req, handler, incs, decs>>

\* runLMFull: the internal call fails, or its body does not decode
AnthFullFails(r, X) ==
  /\ pc[r] = "anth_fullFetch"
  /\ \E o \in X :
       /\ local' = [local EXCEPT ![r].upstream = o, ![r].exit = "upstream"]
       /\ AnthropicFail(r, UpstreamMessage(o))

\* runLMFull returns the text: the buffered 200 response
AnthFullReturns(r, T) ==
  /\ pc[r] = "anth_fullFetch"
  /\ \E text \in T :
       /\ local' = [local EXCEPT ![r].upstream = "200", ![r].fullText = text,
                                 ![r].exit = "success"]
       /\ Finish(r, EndJson(res[r], 200,
                   [kind |-> "message", text |-> FixBoltArtifactFormat(text),
                    stop_reason |-> "end_turn"]))
  /\ UNCHANGED <<fixed, activeRequests, req, handler, incs, decs>>

\* runLMStream: the internal call fails before any byte is read
AnthStreamFetchFails(r, X) ==
  /\ pc[r] = "anth_streamFetch"
  /\ \E o \in X \ {"undecodable"} :
       /\ local' = [local EXCEPT ![r].upstream = o, ![r].exit = "upstream"]
       /\ AnthropicFail(r, UpstreamMessage(o))

\* runLMStream: the internal call answers 200 with the byte stream bytes
AnthStreamOpens(r, S) ==
  /\ pc[r] = "anth_streamFetch"
  /\ \E bytes \in S :
       local' = [local EXCEPT ![r].upstream = "200", ![r].source = bytes,
                              ![r].bytes = bytes]
  /\ pc' = [pc EXCEPT ![r] = "anth_streamRead"]
  /\ UNCHANGED <<fixed, activeRequests, req, res, handler, incs, decs>>

\* anthropic.ts 224-239: the formatter runs, the closing frames are written
StreamClose(rs) == End(WriteAll(rs, StreamEpilogue))

\* reader.read() delivers the next n bytes: the complete lines are consumed and
\* every fragment yielded is written as a content_block_delta
AnthStreamChunk(r) ==
  /\ pc[r] = "anth_streamRead"
  /\ \E n \in 1..Len(local[r].bytes) :
       LET d == Drain(AppendChunk(local[r].buffer, SubSeq(local[r].bytes, 1, n)), <<>>)
           rs == WriteAll(res[r], DeltaEvents(d.frags))
       IN /\ local' = [local EXCEPT ![r].bytes = Slice(@, n),
                                    ![r].buffer = d.buffer,
                                    ![r].split = @ \/ (~d.returned /\ n < Len(local[r].bytes)
                                                        /\ StartsWith(TrimStart(d.buffer),
                                                                      <<"data:">>)),
                                    ![r].frags = @ \o d.frags,
                                    ![r].fullText = @ \o Concat(d.frags),
                                    ![r].exit = IF d.returned THEN "success" ELSE @]
          /\ IF d.returned THEN Finish(r, StreamClose(rs))
             ELSE Suspend(r, rs, "anth_streamRead")
  /\ UNCHANGED <<fixed, activeRequests, req, handler, incs, decs>>

\* reader.read() reports the end of the upstream stream
AnthStreamEnds(r) ==
  /\ pc[r] = "anth_streamRead"
  /\ local[r].bytes = <<>>
  /\ local' = [local EXCEPT ![r].exit = "success"]
  /\ Finish(r, StreamClose(res[r]))
  /\ UNCHANGED <<fixed, activeRequests, req, handler, incs, decs>>

\* reader.read() rejects: the upstream connection broke
AnthStreamReadFails(r) ==
  /\ pc[r] = "anth_streamRead"
  /\ local' = [local EXCEPT ![r].upstream = "network", ![r].exit = "midstream"]
  /\ AnthropicFail(r, UpstreamMessage("network"))

----------------------------------------------------------------------------
(* The internal call served by the generic chat adapter (routes/chat.ts) from
   the fragments the language model produced: buffered, the content is their
   concatenation; streamed, every fragment is one "data: <json>" event and the
   stream may close with the [DONE] sentinel. *)

ChatCompletionText(fragments) == Concat(fragments)

RECURSIVE ChatCompletionEvents(_)
ChatCompletionEvents(fragments) ==
  IF fragments = <<>> THEN <<>>
  ELSE <<"data:", " ", "{">> \o Head(fragments) \o <<"}", "\n", "\n">>
       \o ChatCompletionEvents(Tail(fragments))

ChatCompletionStream(fragments, sentinel) ==
  ChatCompletionEvents(fragments)
  \o (IF sentinel THEN <<"data:", " ", "[DONE]", "\n", "\n">> ELSE <<>>)

\* runLMFull returns the text the chat adapter built from the model output
AnthFullServed(r, M) ==
  /\ pc[r] = "anth_fullFetch"
  /\ \E fragments \in M :
       /\ local' = [local EXCEPT ![r].upstream = "200", ![r].model = fragments,
                                 ![r].fullText = ChatCompletionText(fragments),
                                 ![r].exit = "success"]
       /\ Finish(r, EndJson(res[r], 200,
                   [kind |-> "message",
                    text |-> FixBoltArtifactFormat(ChatCompletionText(fragments)),
                    stop_reason |-> "end_turn"]))
  /\ UNCHANGED <<fixed, activeRequests, req, handler, incs, decs>>

\* runLMStream: the internal call answers 200 with the chat adapter's stream
AnthStreamServed(r, M) ==
  /\ pc[r] = "anth_streamFetch"
  /\ \E fragments \in M, sentinel \in BOOLEAN :
       local' = [local EXCEPT ![r].upstream = "200", ![r].model = fragments,
                              ![r].source = ChatCompletionStream(fragments, sentinel),
                              ![r].bytes = ChatCompletionStream(fragments, sentinel)]
  /\ pc' = [pc EXCEPT ![r] = "anth_streamRead"]
  /\ UNCHANGED <<fixed, activeRequests, req, res, handler, incs, decs>>

----------------------------------------------------------------------------
(* routes/gemini.ts: handleGeminiGenerateContent *)

\* readJson(req) throws: 400 parse_error, return
GemBodyThrows(r) ==
  /\ pc[r] = "gem_readJson"
  /\ req[r].body.malformed
  /\ local' = [local EXCEPT ![r].exit = "body"]
  /\ Finish(r, InterceptReturns(
                 WriteErrorResponse(res[r], 400, "Invalid JSON", "invalid_request_error",
                                    "parse_error", "undefined")))
  /\ UNCHANGED <<fixed, activeRequests, req, handler, incs, decs>>

\* the body is converted and the internal call is issued
GemCalls(r) ==
  /\ pc[r] = "gem_readJson"
  /\ ~req[r].body.malformed
  /\ local' = [local EXCEPT ![r].called = TRUE,
                            ![r].sent = GeminiMessages(BodyContents(req[r].body.obj))]
  /\ pc' = [pc EXCEPT ![r] = "gem_fetch"]
  /\ UNCHANGED <<fixed, activeRequests, req, res, handler, incs, decs>>

\* A faulty variant: the status of the internal call is passed on.
GeminiCatchPassing(rs, o) ==
  EndJson(rs, CASE o = "401" -> 401 [] o = "404" -> 404 [] o = "429" -> 429
                [] o = "503" -> 503 [] OTHER -> 500,
          ErrorBody(UpstreamMessage(o), "server_error", "gemini_conversion_error",
                    "undefined"))

\* the catch clause: 500 server_error gemini_conversion_error, whatever failed
GeminiCatch(rs, o) ==
  EndJson(rs, 500,
          ErrorBody(UpstreamMessage(o), "server_error", "gemini_conversion_error",
                    "undefined"))

\* the internal call fails, or its body does not decode: 500
GemFetchFails(r, X) ==
  /\ pc[r] = "gem_fetch"
  /\ \E o \in X :
       /\ local' = [local EXCEPT ![r].upstream = o, ![r].exit = "upstream"]
       /\ Finish(r, InterceptReturns(GeminiCatch(res[r], o)))
  /\ UNCHANGED <<fixed, activeRequests, req, handler, incs, decs>>

\* String.prototype.toUpperCase, on the finish reasons
ToUpperCase(s) ==
  CASE s = "stop" -> "STOP"
    [] s = "length" -> "LENGTH"
    [] s = "Tool_Calls" -> "TOOL_CALLS"
    [] OTHER -> s

\* openaiResponse.choices?.[0]?.message?.content || ''
CompletionContent(completion) ==
  IF HasField(completion, "content") THEN completion["content"].v ELSE <<>>

\* A faulty variant: the finish reason is copied as it came.
GeminiFinishReasonCopied(completion) ==
  IF HasField(completion, "finish_reason") /\ completion["finish_reason"].v # ""
  THEN completion["finish_reason"].v
  ELSE "STOP"

\* openaiResponse.choices?.[0]?.finish_reason?.toUpperCase() || 'STOP'
GeminiFinishReason(completion) ==
  LET upper == IF HasField(completion, "finish_reason")
               THEN ToUpperCase(completion["finish_reason"].v)
               ELSE ""
  IN IF upper = "" THEN "STOP" ELSE upper

\* openaiResponse.usage?.<count> || 0
UsageCount(completion, count) ==
  IF HasField(completion, count) THEN completion[count].v ELSE 0

\* geminiResponse
GeminiResponse(completion) ==
  [kind |-> "candidates",
   candidates |-> <<[text |-> CompletionContent(completion), role |-> "model",
                     finishReason |-> GeminiFinishReason(completion), index |-> 0]>>,
   usageMetadata |-> [promptTokenCount |-> UsageCount(completion, "prompt_tokens"),
                      candidatesTokenCount |-> UsageCount(completion, "completion_tokens"),
                      totalTokenCount |-> UsageCount(completion, "total_tokens")]]

\* the internal call answers 200 with a completion: the candidates body
GemFetchReturns(r, T) ==
  /\ pc[r] = "gem_fetch"
  /\ \E completion \in T :
       /\ local' = [local EXCEPT ![r].upstream = "200",
                                 ![r].completion = completion,
                                 ![r].fullText = CompletionContent(completion),
                                 ![r].exit = "success"]
       /\ Finish(r, InterceptReturns(EndJson(res[r], 200, GeminiResponse(completion))))
  /\ UNCHANGED <<fixed, activeRequests, req, handler, incs, decs>>

----------------------------------------------------------------------------
(* The connection is reused for the next request. *)

Recycle(r) ==
  /\ pc[r] = "done"
  /\ pc' = [pc EXCEPT ![r] = "idle"]
  /\ req' = [req EXCEPT ![r] = NoReq]
  /\ res' = [res EXCEPT ![r] = NewRes]
  /\ handler' = [handler EXCEPT ![r] = "none"]
  /\ local' = [local EXCEPT ![r] = NewLocal]
  /\ incs' = [incs EXCEPT ![r] = 0]
  /\ decs' = [decs EXCEPT ![r] = 0]
  /\ UNCHANGED <<fixed, activeRequests>>

----------------------------------------------------------------------------
(* What the environment supplies *)

\* The fragments the language model yields.
Fragments == {<<"a">>, <<"b", "b">>}

\* The sequences of at most n fragments.
RECURSIVE FragmentSeqs(_)
FragmentSeqs(n) ==
  IF n = 0 THEN {<<>>}
  ELSE FragmentSeqs(n - 1)
       \cup {Append(s, f) : s \in FragmentSeqs(n - 1), f \in Fragments}

\* What response.text may yield.
ModelTexts == FragmentSeqs(MaxChunks)

\* The texts a buffered internal call returns.
Texts == {<<>>, <<"a", "b">>}

\* Completions of the internal call, choices[0] and usage flattened: every
\* field may be absent, the content and the finish reason may be empty.
Completion(content, finish) ==
  ("content" :> JStr(content)) @@ ("finish_reason" :> JStr(finish))

Completions ==
  { NoFields,
    Completion(<<>>, ""),
    Completion(<<"a", "b">>, "stop"),
    Completion(<<"a">>, "length") @@ ("prompt_tokens" :> JNum(3))
      @@ ("completion_tokens" :> JNum(2)) @@ ("total_tokens" :> JNum(5)),
    ("content" :> JStr(<<"b">>)) @@ ("prompt_tokens" :> JNum(2)),
    ("finish_reason" :> JStr("Tool_Calls")) @@ ("completion_tokens" :> JNum(1))
      @@ ("total_tokens" :> JNum(0)) }

NL == <<"\n">>
LineA == <<"data:", " ", "{", "a", "}">>
LineB == <<"data:", "{", "b", "b", "}">>
LineNoContent == <<"data:", " ", "{", "}">>
LinePartial == <<"data:", " ", "{", "a">>
LineBlank == <<>>
LineDone == <<"data:", " ", "[DONE]">>
LineEmptyData == <<"data:">>

LineKinds ==
  {LineA, LineB, LineNoContent, LinePartial, LineBlank, LineDone, LineEmptyData}

\* The byte streams of at most n newline-terminated lines.
RECURSIVE StreamsOf(_)
StreamsOf(n) ==
  IF n = 0 THEN {<<>>}
  ELSE StreamsOf(n - 1) \cup {s \o l \o NL : s \in StreamsOf(n - 1), l \in LineKinds}

\* ... and those whose last line lacks its newline.
AllStreams ==
  StreamsOf(MaxLines)
  \cup {s \o l : s \in StreamsOf(MaxLines - 1), l \in LineKinds}

\* Two upstream streams: one ended by [DONE], one cut off in mid-line.
ServerStreams ==
  { LineA \o NL \o NL \o LineB \o NL \o NL \o LineDone \o NL,
    LineA \o NL \o LineB }

\* The requests of a server under load: authorized, one per dialect endpoint,
\* and the three kinds of /v1/responses body.
LoadRequests ==
  { Request(<<"POST", PResponses>>, GoodCredential, AnyBody),
    Request(<<"POST", PResponses>>, GoodCredential, Body("input" :> GoodList)),
    Request(<<"POST", PResponses>>, GoodCredential, MalformedBody),
    Request(<<"POST", PChat>>, GoodCredential, AnyBody),
    Request(<<"POST", PMessages>>, GoodCredential, AnyBody),
    Request(<<"POST", PGemini>>, GoodCredential, AnyBody) }

\* The streaming /v1/messages request.
StreamRequests ==
  { Request(<<"POST", PMessages>>, GoodCredential,
            Body(("model" :> ModelM) @@ ("messages" :> GoodList))) }

----------------------------------------------------------------------------
(* Spec: NumReqs connections serve the load requests concurrently. *)

Next ==
  \E r \in Reqs :
    \/ GeminiThrottled(r, LoadRequests)
    \/ GeminiStart(r, LoadRequests)
    \/ RouteThrottled(r, LoadRequests)
    \/ ChatStart(r, LoadRequests)
    \/ ResponsesStart(r, LoadRequests)
    \/ MessagesStart(r, LoadRequests)
    \/ AiSdkBodyThrows(r)
    \/ AiSdkInvalid(r)
    \/ AiSdkValid(r)
    \/ AiSdkGetModelThrows(r)
    \/ AiSdkNoModel(r)
    \/ AiSdkModelFound(r)
    \/ AiSdkSendRequestThrows(r)
    \/ AiSdkSendRequestReturns(r, {<<<<"a">>>>}, {FALSE})
    \/ AiSdkChunk(r)
    \/ AiSdkIterThrows(r)
    \/ AiSdkComplete(r)
    \/ AiSdkWriteThrows(r)
    \/ ChatRun(r)
    \/ AnthBuffered(r)
    \/ AnthFullFails(r, {"429"})
    \/ AnthFullReturns(r, {<<"a">>})
    \/ GemCalls(r)
    \/ GemFetchFails(r, {"429"})
    \/ GemFetchReturns(r, {Completion(<<"a">>, "stop")})
    \/ Recycle(r)

\* The counter does not depend on the window or on the vscode API.
InitLoad == Init /\ historyWindow = MaxWindow /\ lmContent = "string"

Spec == InitLoad /\ [][Next]_vars

----------------------------------------------------------------------------
(* SpecOne: one connection serves every kind of request, one after another. *)

NextOne ==
  \/ AuthReject(1, AllRequests)
  \/ GeminiNoToken(1, AllRequests)
  \/ GeminiStart(1, AllRequests)
  \/ RouteNoMatch(1, AllRequests)
  \/ ServeCollaborator(1, AllRequests)
  \/ ChatStart(1, AllRequests)
  \/ ResponsesStart(1, AllRequests)
  \/ MessagesNoToken(1, AllRequests)
  \/ MessagesStart(1, AllRequests)
  \/ AiSdkBodyThrows(1)
  \/ AiSdkInvalid(1)
  \/ AiSdkValid(1)
  \/ AiSdkGetModelThrows(1)
  \/ AiSdkNoModel(1)
  \/ AiSdkModelFound(1)
  \/ AiSdkSendRequestThrows(1)
  \/ AiSdkSendRequestReturns(1, ModelTexts, BOOLEAN)
  \/ AiSdkChunk(1)
  \/ AiSdkIterThrows(1)
  \/ AiSdkComplete(1)
  \/ AiSdkWriteThrows(1)
  \/ ChatRun(1)
  \/ AnthBodyThrows(1)
  \/ AnthBuffered(1)
  \/ AnthStreaming(1)
  \/ AnthFullFails(1, UpstreamFailures)
  \/ AnthFullReturns(1, Texts)
  \/ AnthStreamFetchFails(1, UpstreamFailures)
  \/ AnthStreamOpens(1, ServerStreams)
  \/ AnthStreamChunk(1)
  \/ AnthStreamEnds(1)
  \/ AnthStreamReadFails(1)
  \/ GemBodyThrows(1)
  \/ GemCalls(1)
  \/ GemFetchFails(1, UpstreamFailures)
  \/ GemFetchReturns(1, Completions)
  \/ Recycle(1)

SpecOne == Init /\ [][NextOne]_vars

----------------------------------------------------------------------------
(* SpecStream: one streaming /v1/messages request over every upstream stream. *)

InitStream ==
  Init /\ token = TokA /\ maxConcurrent = 1 /\ historyWindow = MaxWindow
       /\ lmContent = "string"

NextStream ==
  \/ MessagesStart(1, StreamRequests)
  \/ AnthStreaming(1)
  \/ AnthStreamFetchFails(1, UpstreamFailures)
  \/ AnthStreamOpens(1, AllStreams)
  \/ AnthStreamChunk(1)
  \/ AnthStreamEnds(1)
  \/ AnthStreamReadFails(1)

SpecStream == InitStream /\ [][NextStream]_vars

----------------------------------------------------------------------------
(* SpecEquiv: one connection serves /v1/messages, buffered and streamed, and
   /v1/responses, the internal call being served from the model's output. *)

EquivRequests ==
  { Request(<<"POST", PMessages>>, GoodCredential,
            Body(("model" :> ModelM) @@ ("messages" :> GoodList)
                 @@ ("stream" :> JBool(st)))) : st \in BOOLEAN }
  \cup { Request(<<"POST", PResponses>>, GoodCredential,
                 Body(("model" :> ModelM) @@ ("input" :> GoodList))) }

InitEquiv ==
  Init /\ token = TokA /\ maxConcurrent = 1 /\ historyWindow = MaxWindow
       /\ lmContent = "string"

NextEquiv ==
  \/ MessagesStart(1, EquivRequests)
  \/ AnthBuffered(1)
  \/ AnthStreaming(1)
  \/ AnthFullServed(1, ModelTexts)
  \/ AnthStreamServed(1, ModelTexts)
  \/ AnthStreamChunk(1)
  \/ AnthStreamEnds(1)
  \/ ResponsesStart(1, EquivRequests)
  \/ AiSdkValid(1)
  \/ AiSdkModelFound(1)
  \/ AiSdkSendRequestReturns(1, ModelTexts, BOOLEAN)
  \/ AiSdkChunk(1)
  \/ AiSdkComplete(1)
  \/ Recycle(1)

SpecEquiv == InitEquiv /\ [][NextEquiv]_vars

----------------------------------------------------------------------------
(* server.ts 16-21, 159-182: startServer and stopServer, called by the
   extension at any time, also while an earlier call waits for its callback. *)

\* startServer finds state.server set and returns
StartReturns(c) ==
  /\ life.start[c] = 0
  /\ life.server # 0
  /\ UNCHANGED vars

\* config.port: a port number, or 0 for a port the system picks
Ports == {"fixed", "ephemeral"}

\* startServer finds state.server undefined, builds the app and calls
\* app.listen; the port is free, or is 0 and the system picks a free one
StartListens(c) ==
  /\ life.start[c] = 0
  /\ life.server = 0
  /\ life.port = "ephemeral" \/ life.listening = {}
  /\ life.created < MaxServers
  /\ life' = [life EXCEPT !.created = @ + 1,
                          !.listening = @ \cup {life.created + 1},
                          !.start[c] = life.created + 1]
  /\ UNCHANGED serving

\* ... or the port is taken by a server that listens: the server emits
\* 'error' and the promise rejects
StartFails(c) ==
  /\ life.start[c] = 0
  /\ life.server = 0
  /\ life.port = "fixed" /\ life.listening # {}
  /\ life.created < MaxServers
  /\ life' = [life EXCEPT !.created = @ + 1]
  /\ UNCHANGED serving

\* the listen callback: state.server = srv, resolve
StartListening(c) ==
  /\ life.start[c] # 0
  /\ life' = [life EXCEPT !.server = life.start[c], !.start[c] = 0]
  /\ UNCHANGED serving

\* stopServer finds state.server undefined: resolve, state.server = undefined
StopIdle(c) ==
  /\ life.closing[c] = 0
  /\ life.server = 0
  /\ UNCHANGED vars

\* stopServer calls state.server.close(): the server stops listening, and the
\* callback waits for the server's 'close' event
StopCloses(c) ==
  /\ life.closing[c] = 0
  /\ life.server # 0
  /\ life' = [life EXCEPT !.closing[c] = life.server,
                          !.listening = @ \ {life.server}]
  /\ UNCHANGED serving

\* the 'close' event of a server runs the callback of every call that waits
\* for it: resolve, state.server = undefined
StopClosed(c) ==
  /\ life.closing[c] # 0
  /\ life' = [life EXCEPT
                !.closing = [d \in StopCalls |->
                               IF life.closing[d] = life.closing[c] THEN 0
                               ELSE life.closing[d]],
                !.server = 0]
  /\ UNCHANGED serving

InitLifecycle ==
  /\ \E p \in Ports : InitState([NotStarted EXCEPT !.port = p])
  /\ token = TokA /\ maxConcurrent = 1 /\ historyWindow = MaxWindow
  /\ lmContent = "string"

NextLifecycle ==
  \/ \E c \in StartCalls :
       \/ StartReturns(c)
       \/ StartListens(c)
       \/ StartFails(c)
       \/ StartListening(c)
  \/ \E c \in StopCalls :
       \/ StopIdle(c)
       \/ StopCloses(c)
       \/ StopClosed(c)

SpecLifecycle == InitLifecycle /\ [][NextLifecycle]_vars

----------------------------------------------------------------------------
(* The configured token changes between requests: the auth middleware reads
   getBridgeConfig().token anew for every request (server.ts 42). *)

AuthTokens == {Empty, TokA, TokB}

ConfigChanges(T) ==
  \E t \in T \ {token} :
    /\ token' = t
    /\ UNCHANGED <<maxConcurrent, historyWindow, lmContent, cachedToken,
                   cachedAuthHeader, activeRequests, req, pc, res, handler,
                   local, incs, decs, life>>

\* GET /v1/models under every credential, and GET /health.
AuthRequests ==
  {Request(<<"GET", PModels>>, c, AnyBody) : c \in Credentials}
  \cup {Request(<<"GET", PHealth>>, [headers |-> NoHeaders, query |-> NoQuery],
                AnyBody)}

InitAuth ==
  Init /\ maxConcurrent = 1 /\ historyWindow = MaxWindow /\ lmContent = "string"

NextAuth ==
  \/ ConfigChanges(AuthTokens)
  \/ \E r \in Reqs :
       \/ AuthReject(r, AuthRequests)
       \/ ServeCollaborator(r, AuthRequests)
       \/ Recycle(r)

SpecAuth == InitAuth /\ [][NextAuth]_vars

----------------------------------------------------------------------------
(* NumReqs connections that all serve POST /v1/responses concurrently. *)

ResponsesLoad ==
  { Request(<<"POST", PResponses>>, GoodCredential, AnyBody),
    Request(<<"POST", PResponses>>, GoodCredential, Body("input" :> GoodList)),
    Request(<<"POST", PResponses>>, GoodCredential, MalformedBody) }

NextResponses ==
  \E r \in Reqs :
    \/ RouteThrottled(r, ResponsesLoad)
    \/ ResponsesStart(r, ResponsesLoad)
    \/ AiSdkBodyThrows(r)
    \/ AiSdkInvalid(r)
    \/ AiSdkValid(r)
    \/ AiSdkGetModelThrows(r)
    \/ AiSdkNoModel(r)
    \/ AiSdkModelFound(r)
    \/ AiSdkSendRequestThrows(r)
    \/ AiSdkSendRequestReturns(r, {<<<<"a">>>>}, {FALSE})
    \/ AiSdkChunk(r)
    \/ AiSdkIterThrows(r)
    \/ AiSdkComplete(r)
    \/ AiSdkWriteThrows(r)
    \/ Recycle(r)

SpecResponses == InitLoad /\ [][NextResponses]_vars

----------------------------------------------------------------------------
(* One connection whose requests carry message lists of every shape: entries
   of known and unknown roles, content as a string or as a list of parts, and
   for /v1/messages a system string that is absent, empty, blank or not. *)

Part(type, text) == ("type" :> JStr(type)) @@ ("text" :> JStr(text))
TextPart(text) == "text" :> JStr(text)
Parts(role, parts) == ("role" :> JStr(role)) @@ ("parts" :> JArr(parts))

\* All lists of at most n entries drawn from E.
ListsOf(E, n) == UNION { [1..k -> E] : k \in 0..n }

AiSdkEntries ==
  { Msg("user", JStr(<<"a">>)),
    Msg("assistant", JArr(<<Part("input_text", <<"a">>), Part("image", <<"x">>),
                            Part("output_text", <<"b">>)>>)),
    Msg("system", JStr(<<"b">>)),
    Msg("narrator", JStr(<<"a", "b", "a", "b", "a">>)) }

AnthropicEntries ==
  { Msg("user", JStr(<<"a">>)),
    Msg("assistant", JArr(<<Part("text", <<"a">>), Part("text", <<"b">>)>>)),
    Msg("narrator", JStr(<<"b">>)),
    Msg("user", JArr(<<Part("image", <<"x">>), Part("text", <<"a">>)>>)) }

GeminiEntries ==
  { Parts("user", <<TextPart(<<"a">>)>>),
    Parts("model", <<TextPart(<<"a">>), TextPart(<<"b">>)>>),
    Parts("narrator", <<TextPart(<<"b">>)>>),
    "parts" :> JArr(<<TextPart(<<"b">>), TextPart(<<>>)>>) }

Systems == {<<>>, <<" ">>, <<"s">>, <<" ", "s">>}

\* Texts of the internal call: plain, with blank space around and inside, with
\* a tag whose attributes run together and whose closing tag is missing, and
\* with a well-formed tag.
BoltTexts ==
  { <<"a">>,
    <<" ", "a", "\n", "\n", "b", "\n">>,
    <<"<boltAction", "type=", "filePath=", ">", "a", "</boltArtifact>">>,
    <<"<boltAction", " ", "type=", ">", "a", "</boltAction>">> }

ConvRequests ==
  { Request(<<"POST", PResponses>>, GoodCredential,
            Body(("model" :> ModelM) @@ ("input" :> JArr(l))))
      : l \in ListsOf(AiSdkEntries, MaxMsgs) }
  \cup { Request(<<"POST", PMessages>>, GoodCredential,
                 Body(("model" :> ModelM) @@ ("messages" :> JArr(l))
                      @@ ("stream" :> JBool(FALSE))))
           : l \in ListsOf(AnthropicEntries, MaxMsgs) }
  \cup { Request(<<"POST", PMessages>>, GoodCredential,
                 Body(("model" :> ModelM) @@ ("messages" :> JArr(l))
                      @@ ("stream" :> JBool(FALSE)) @@ ("system" :> JStr(sys))))
           : l \in ListsOf(AnthropicEntries, MaxMsgs - 1), sys \in Systems }
  \cup { Request(<<"POST", PGemini>>, GoodCredential, Body("contents" :> JArr(l)))
           : l \in ListsOf(GeminiEntries, MaxMsgs) }

\* What the language model yields: nothing, one fragment, five characters in
\* three fragments.
ConvTexts == {<<>>, <<<<"a">>>>, <<<<"b", "b">>, <<"b", "b">>, <<"a">>>>}

InitConv == Init /\ token = TokA /\ maxConcurrent = 1

NextConv ==
  \/ ResponsesStart(1, ConvRequests)
  \/ AiSdkValid(1)
  \/ AiSdkModelFound(1)
  \/ AiSdkSendRequestReturns(1, ConvTexts, {FALSE})
  \/ AiSdkChunk(1)
  \/ AiSdkComplete(1)
  \/ MessagesStart(1, ConvRequests)
  \/ AnthBuffered(1)
  \/ AnthFullReturns(1, BoltTexts)
  \/ GeminiStart(1, ConvRequests)
  \/ GemCalls(1)
  \/ GemFetchReturns(1, {Completion(<<"a">>, "stop")})
  \/ Recycle(1)

SpecConv == InitConv /\ [][NextConv]_vars

----------------------------------------------------------------------------
(* Properties *)

\* C1: a streaming /v1/messages response whose upstream stream completes holds,
\* in this order, one message_start, one content_block_start with empty text,
\* content_block_delta events, one content_block_stop, one message_delta with a
\* stop reason and one message_stop, and is then ended, once; while the stream
\* is being read the response holds the two opening events and deltas only.
C1_StreamEventOrder ==
  \A r \in Reqs :
    LET b == res[r].body
        n == Len(b)
    IN /\ pc[r] = "anth_streamRead" =>
            /\ n >= 2
            /\ b[1] = Sse("message_start", <<>>)
            /\ b[2] = Sse("content_block_start", <<>>)
            /\ \A i \in 3..n : b[i].event = "content_block_delta"
            /\ ~res[r].ended
       /\ (handler[r] = "messages" /\ local[r].stream /\ pc[r] = "done"
           /\ local[r].exit = "success") =>
            /\ n >= 5
            /\ b[1] = Sse("message_start", <<>>)
            /\ b[2] = Sse("content_block_start", <<>>)
            /\ \A i \in 3..(n - 3) : b[i].event = "content_block_delta"
            /\ b[n - 2].event = "content_block_stop"
            /\ b[n - 1].event = "message_delta" /\ b[n - 1].text # <<>>
            /\ b[n].event = "message_stop"
            /\ res[r].ended /\ res[r].ends = 1

\* A completed streaming response with at least two deltas.
C1_Witness ==
  \E r \in Reqs :
    /\ handler[r] = "messages" /\ local[r].stream
    /\ pc[r] = "done" /\ local[r].exit = "success"
    /\ Len(res[r].body) >= 7
    /\ res[r].ended

\* C2: at every moment of a streaming /v1/messages request the i-th
\* content_block_delta written carries the text of the i-th fragment the
\* re-framer yielded: none is reordered, merged, split, dropped or duplicated.
C2_DeltaPerFragment ==
  \A r \in Reqs :
    handler[r] = "messages" =>
      LET deltas == SelectSeq(res[r].body,
                              LAMBDA e : e.kind = "sse" /\ e.event = "content_block_delta")
      IN /\ Len(deltas) = Len(local[r].frags)
         /\ \A i \in 1..Len(deltas) : deltas[i].text = local[r].frags[i]

\* Two different fragments arrived in one read and the stream completed.
C2_Witness ==
  \E r \in Reqs :
    /\ handler[r] = "messages" /\ local[r].stream /\ pc[r] = "done"
    /\ Len(local[r].frags) >= 2
    /\ local[r].frags[1] # local[r].frags[2]
    /\ local[r].bytes = <<>>
    /\ Len(res[r].body) = Len(local[r].frags) + 5

\* C3: handleAiSdkResponse increments state.activeRequests once when it
\* starts and has decremented it once when it is done, whichever way it left,
\* and never before; the counter equals the number of counted handlers still
\* running, so it is back at its former value after every response.
C3_CounterPaired ==
  /\ \A r \in Reqs :
       handler[r] = "responses" =>
         /\ incs[r] = 1
         /\ decs[r] = IF pc[r] = "done" THEN 1 ELSE 0
  /\ activeRequests =
       Cardinality({r \in Reqs : handler[r] \in {"responses", "chat"} /\ pc[r] # "done"})

\* A handler that left through its catch clause while another was running.
C3_Witness ==
  \E r, o \in Reqs :
    /\ r # o
    /\ handler[r] = "responses" /\ pc[r] = "done"
    /\ local[r].exit \in {"readJson", "getModel", "sendRequest", "iteration", "write"}
    /\ res[r].statusCode = 500
    /\ decs[r] = 1
    /\ handler[o] = "responses" /\ pc[o] # "done"
    /\ activeRequests = 1

\* C4: an authorized request to a dialect endpoint (POST /v1/chat/completions,
\* /v1/responses, /v1/messages, a Gemini generateContent path) that arrives while
\* state.activeRequests >= maxConcurrent is answered 429 and starts no handler.
C4_ThrottledEverywhere ==
  [][\A r \in Reqs :
       (/\ pc[r] = "idle" /\ pc'[r] # "idle"
        /\ req'[r].method = "POST"
        /\ req'[r].path \in {PChat, PResponses, PMessages} \/ IsGeminiCall(req'[r])
        /\ AuthOutcome(req'[r], token) = "next"
        /\ activeRequests >= maxConcurrent)
       => (handler'[r] = "none" /\ res'[r].statusCode = 429)]_vars

\* The credentials a request carries, wherever it carries them.
PresentedCredentials(q) ==
  {Trim(Slice(q.headers[h], 7)) :
     h \in {h \in DOMAIN q.headers :
              h = "authorization" /\ StartsWith(q.headers[h], Bearer)}}
  \cup {Trim(q.headers[h]) : h \in DOMAIN q.headers \ {"authorization"}}
  \cup {q.query[k] : k \in DOMAIN q.query}

\* C5: a request for a path other than /health that presents no credential
\* equal to the configured token, or that arrives while the configured token is
\* empty, is answered 401 by the auth middleware and starts no handler.
C5_NoHandlerWithoutCredential ==
  \A r \in Reqs :
    (/\ req[r] # NoReq
     /\ req[r].path # PHealth
     /\ token = Empty \/ token \notin PresentedCredentials(req[r]))
    => /\ pc[r] = "done"
       /\ handler[r] = "none"
       /\ res[r].statusCode = 401
       /\ Len(res[r].body) = 1 /\ res[r].body[1].kind = "error"
       /\ ~local[r].called

\* A Bearer header holding another token than the configured one was rejected.
C5_Witness ==
  \E r \in Reqs :
    /\ token = TokA
    /\ req[r] # NoReq
    /\ req[r].path = PResponses
    /\ req[r].headers = ("authorization" :> (Bearer \o TokB))
    /\ pc[r] = "done" /\ handler[r] = "none" /\ res[r].statusCode = 401

\* C6: a POST to a Gemini generateContent path whose only credential is a key
\* query parameter equal to the configured token is not answered 401 and reaches
\* handleGeminiGenerateContent; when a Bearer header and a key parameter are both
\* present the handler uses the header's value.
C6_QueryKeyAccepted ==
  \A r \in Reqs :
    (req[r] # NoReq /\ IsGeminiCall(req[r]) /\ token # Empty) =>
      /\ (/\ DOMAIN req[r].headers = {}
          /\ DOMAIN req[r].query = {"key"}
          /\ req[r].query["key"] = token)
         => (res[r].statusCode # 401 /\ handler[r] = "gemini")
      /\ (/\ handler[r] = "gemini"
          /\ local[r].tok # Empty
          /\ HasHeader(req[r], "authorization")
          /\ "key" \in DOMAIN req[r].query)
         => local[r].tok = Trim(Slice(req[r].headers["authorization"], 7))

\* The response is one JSON error envelope of the given status and code.
IsErrorResponse(rs, status, code) ==
  /\ rs.statusCode = status
  /\ Len(rs.body) = 1
  /\ rs.body[1].kind = "error"
  /\ rs.body[1].code = code

\* C7 as stated: in each adapter a model-resolution failure is answered 404
\* model_not_found when the caller named a model and the provider capability
\* exists, 503 copilot_unavailable / missing_language_model_api when the
\* capability is missing. For the adapters that proxy the internal call the
\* failure is the 404 or 503 that call comes back with.
C7_EveryAdapterResolution ==
  \A r \in Reqs :
    /\ (handler[r] = "responses" /\ pc[r] = "done" /\ local[r].exit = "resolution"
        /\ req[r].body.obj["model"].v # Empty /\ local[r].hasLM)
       => IsErrorResponse(res[r], 404, "model_not_found")
    /\ (handler[r] = "responses" /\ pc[r] = "done" /\ local[r].exit = "resolution"
        /\ ~local[r].hasLM)
       => (/\ IsErrorResponse(res[r], 503, "copilot_unavailable")
           /\ res[r].body[1].reason = "missing_language_model_api")
    /\ (handler[r] \in {"messages", "gemini"} /\ pc[r] = "done"
        /\ local[r].upstream = "404")
       => IsErrorResponse(res[r], 404, "model_not_found")
    /\ (handler[r] \in {"messages", "gemini"} /\ pc[r] = "done"
        /\ local[r].upstream = "503")
       => (/\ IsErrorResponse(res[r], 503, "copilot_unavailable")
           /\ res[r].body[1].reason = "missing_language_model_api")

\* C7, amended: in the /v1/responses adapter, which resolves the model itself, a
\* resolution failure is answered 404 model_not_found when the caller named a
\* model and the provider capability exists, and 503 copilot_unavailable with
\* reason missing_language_model_api when the capability is missing. The Gemini
\* adapter and the buffered Anthropic adapter answer a 404 and a 503 of their
\* internal call alike: 500 server_error.
C7_ResponsesResolution ==
  \A r \in Reqs :
    /\ (handler[r] = "responses" /\ pc[r] = "done" /\ local[r].exit = "resolution"
        /\ req[r].body.obj["model"].v # Empty /\ local[r].hasLM)
       => IsErrorResponse(res[r], 404, "model_not_found")
    /\ (handler[r] = "responses" /\ pc[r] = "done" /\ local[r].exit = "resolution"
        /\ ~local[r].hasLM)
       => (/\ IsErrorResponse(res[r], 503, "copilot_unavailable")
           /\ res[r].body[1].reason = "missing_language_model_api")
    /\ (/\ \/ handler[r] = "gemini"
           \/ handler[r] = "messages" /\ ~local[r].stream
        /\ pc[r] = "done"
        /\ local[r].upstream \in {"404", "503"})
       => (/\ res[r].statusCode = 500
           /\ Len(res[r].body) = 1
           /\ res[r].body[1].kind = "error"
           /\ res[r].body[1].type = "server_error")

\* A named model was not found while the provider capability exists: 404.
C7_Witness ==
  \E r \in Reqs :
    /\ handler[r] = "responses" /\ pc[r] = "done" /\ local[r].exit = "resolution"
    /\ req[r].body.obj["model"].v # Empty
    /\ local[r].hasLM
    /\ res[r].statusCode = 404

\* C8: when the internal call or the stream read of a streaming /v1/messages
\* request fails after message_start was written, the adapter writes no JSON
\* error envelope, does not try to change the status or the headers, and the
\* response is ended.
C8_NoRetrofit ==
  \A r \in Reqs :
    (/\ handler[r] = "messages" /\ local[r].stream /\ pc[r] = "done"
     /\ local[r].exit \in {"upstream", "midstream"})
    => /\ \A i \in 1..Len(res[r].body) : res[r].body[i].kind # "error"
       /\ ~res[r].lateStatus
       /\ ~res[r].lateHeader
       /\ res[r].ended

\* C9: every request that fails otherwise than in mid-stream (bad credential,
\* malformed body, validation or model-resolution failure, failure of the model
\* call before any fragment, uncaught exception) is answered with a non-2xx
\* status and a JSON error body holding error.message and error.type.
C9_ErrorEnvelope ==
  \A r \in Reqs :
    (pc[r] = "done" /\ local[r].exit \notin {"success", "midstream"})
    => /\ res[r].statusCode \notin 200..299
       /\ res[r].ended
       /\ Len(res[r].body) = 1
       /\ res[r].body[1].kind = "error"
       /\ res[r].body[1].message # "undefined"
       /\ res[r].body[1].type # "undefined"

\* C10: on /v1/responses and /v1/messages a request whose body has no model
\* field is answered 400 invalid_request_error and the model is never invoked.
C10_MissingModelRejected ==
  \A r \in Reqs :
    (/\ handler[r] \in {"responses", "messages"}
     /\ ~req[r].body.malformed
     /\ ~HasField(req[r].body.obj, "model")
     /\ pc[r] \notin {"aisdk_readJson", "anth_body"})
    => /\ ~local[r].called
       /\ pc[r] = "done"
       /\ res[r].statusCode = 400
       /\ Len(res[r].body) = 1
       /\ res[r].body[1].kind = "error"
       /\ res[r].body[1].type = "invalid_request_error"

\* C11: on /v1/responses, /v1/messages and the Gemini generateContent paths a
\* body that is not parseable JSON is answered 400 invalid_request_error, not
\* 500, and the model is never invoked for it.
C11_MalformedBodyRejected ==
  \A r \in Reqs :
    (/\ handler[r] \in {"responses", "messages", "gemini"}
     /\ req[r].body.malformed
     /\ pc[r] = "done")
    => /\ res[r].statusCode = 400
       /\ Len(res[r].body) = 1
       /\ res[r].body[1].kind = "error"
       /\ res[r].body[1].type = "invalid_request_error"
       /\ ~local[r].called

\* The texts of the content_block_delta events of a response, in order.
RECURSIVE DeltaTexts(_)
DeltaTexts(b) ==
  IF b = <<>> THEN <<>>
  ELSE (IF Head(b).kind = "sse" /\ Head(b).event = "content_block_delta"
        THEN <<Head(b).text>> ELSE <<>>) \o DeltaTexts(Tail(b))

\* C12: whatever fragments the model produced, a completed response delivers
\* their in-order concatenation: the texts of the content_block_delta events of
\* a streamed /v1/messages response concatenate to it, the content text of the
\* buffered /v1/messages response equals it, and so does the output text of
\* /v1/responses.
C12_StreamBufferEquivalence ==
  \A r \in Reqs :
    (pc[r] = "done" /\ local[r].exit = "success") =>
      /\ (handler[r] = "messages" /\ local[r].stream)
         => Concat(DeltaTexts(res[r].body)) = Concat(local[r].model)
      /\ (handler[r] = "messages" /\ ~local[r].stream)
         => res[r].body[1].text = Concat(local[r].model)
      /\ handler[r] = "responses"
         => res[r].body[1].text = Concat(local[r].model)

\* A streamed response delivered a model output of two different fragments.
C12_Witness ==
  \E r \in Reqs :
    /\ pc[r] = "done" /\ local[r].exit = "success"
    /\ handler[r] = "messages" /\ local[r].stream
    /\ Len(local[r].model) >= 2
    /\ local[r].model[1] # local[r].model[2]
    /\ Len(DeltaTexts(res[r].body)) = Len(local[r].model)

\* The list a request carries, and the list its handler hands on, without the
\* system message /v1/messages puts in front.
InputList(r) ==
  LET obj == req[r].body.obj
  IN CASE handler[r] = "responses" -> obj["input"].v
       [] handler[r] = "messages" -> BodyMessages(obj)
       [] OTHER -> BodyContents(obj)

HandedOn(r) ==
  LET sent == local[r].sent
  IN IF handler[r] = "messages" /\ sent # <<>> /\ sent[1].role = "system"
     THEN Tail(sent) ELSE sent

\* The role the specification gives an entry of the list.
NormalRole(role) == IF role \in {"assistant", "model"} THEN "assistant" ELSE "user"

\* C13: in every adapter the entries handed on keep their positions, with the
\* role normalised: Gemini 'model' and 'assistant' become assistant, and every
\* role that is not recognised becomes user. For /v1/responses the positions
\* are those of the last entries the history window keeps.
C13_RoleNormalised ==
  \A r \in Reqs :
    (handler[r] \in {"responses", "messages", "gemini"} /\ local[r].called)
    => LET input == InputList(r)
           out == HandedOn(r)
           off == Len(input) - Len(out)
       IN /\ off >= 0
          /\ handler[r] # "responses" => off = 0
          /\ \A i \in 1..Len(out) : out[i].role = NormalRole(RoleOf(input[off + i]))

\* The entries of the list that the handler hands on: /v1/messages keeps those
\* of role user or assistant, /v1/responses the last ones the window keeps.
EntriesHandedOn(r) ==
  LET input == InputList(r)
      kept == IF handler[r] = "messages"
              THEN SelectSeq(input, LAMBDA m : RoleOf(m) \in {"user", "assistant"})
              ELSE input
  IN SubSeq(kept, Len(kept) - Len(HandedOn(r)) + 1, Len(kept))

\* The text the specification gives an entry: a string as it is, a list of
\* parts as the concatenation, in order, of its text-tagged parts.
TextTags(h) == IF h = "responses" THEN {"input_text", "output_text"} ELSE {"text"}

FlatText(h, entry) ==
  IF h = "gemini"
  THEN LET ps == IF HasField(entry, "parts") THEN entry["parts"].v ELSE <<>>
           kept == SelectSeq(ps, LAMBDA part : HasField(part, "text"))
       IN Join([i \in 1..Len(kept) |-> PartText(kept[i])], <<>>)
  ELSE IF entry["content"].t = "string" THEN entry["content"].v
  ELSE LET kept == SelectSeq(entry["content"].v,
                             LAMBDA part : PartType(part) \in TextTags(h))
       IN Join([i \in 1..Len(kept) |-> PartText(kept[i])], <<>>)

\* C14: in every adapter the text handed on for an entry is the entry's string
\* content unchanged, or the concatenation in order of all the text-tagged
\* parts of its list content, the other parts dropped.
C14_ContentFlattened ==
  \A r \in Reqs :
    (handler[r] \in {"responses", "messages", "gemini"} /\ local[r].called)
    => LET entries == EntriesHandedOn(r)
           out == HandedOn(r)
       IN \A i \in 1..Len(out) : out[i].text = FlatText(handler[r], entries[i])

\* C15: for every window w and every list of n entries, /v1/responses hands
\* the language model exactly the last min(n, 2w) entries, in order, and so
\* never more than 2w.
C15_HistoryWindow ==
  \A r \in Reqs :
    (handler[r] = "responses" /\ local[r].called)
    => LET lmMessages == ConvertAiSdkMessagesToLM(req[r].body.obj["input"].v)
           n == Len(lmMessages)
           k == IF n < 2 * historyWindow THEN n ELSE 2 * historyWindow
       IN /\ local[r].sent = SubSeq(lmMessages, n - k + 1, n)
          /\ Len(local[r].sent) <= 2 * historyWindow

\* n is the least number of groups of four that cover a text of length len
IsCeilQuarter(n, len) == n \in Nat /\ 4 * n >= len /\ (n > 0 => 4 * (n - 1) < len)

\* C16: the usage of every /v1/responses success body holds non-negative
\* integers, total_tokens is input_tokens + output_tokens, output_tokens is
\* ceil(length of the output text / 4) and input_tokens is ceil(length of the
\* concatenated input text / 4); so each estimate grows with its text and is
\* 0 exactly for the empty text.
C16_UsageEstimate ==
  \A r \in Reqs :
    (/\ handler[r] = "responses" /\ pc[r] = "done"
     /\ local[r].exit = "success" /\ res[r].statusCode = 200)
    => LET usage == res[r].body[1].usage
           inputText == Join([i \in 1..Len(local[r].sent) |-> local[r].sent[i].text],
                             <<>>)
       IN /\ IsCeilQuarter(usage.output_tokens, Len(res[r].body[1].text))
          /\ IsCeilQuarter(usage.input_tokens, Len(inputText))
          /\ usage.total_tokens = usage.input_tokens + usage.output_tokens

\* The tags the sanitizer targets.
HasBoltTag(text) == \E i \in 1..Len(text) : text[i] \in {"<boltArtifact", "<boltAction"}

\* The buffered /v1/messages answers, where the sanitizer has been applied.
Sanitized(r) ==
  /\ handler[r] = "messages" /\ pc[r] = "done"
  /\ ~local[r].stream /\ local[r].exit = "success"

\* C17: the text a buffered /v1/messages answer carries is the sanitizer's
\* result for the text of the internal call; sanitizing it again leaves it as
\* it is, and it is the text of the internal call itself whenever that text
\* holds none of the targeted tags.
C17_SanitizerIdempotent ==
  \A r \in Reqs :
    Sanitized(r)
    => LET x == local[r].fullText
           y == res[r].body[1].text
       IN /\ y = FixBoltArtifactFormat(x)
          /\ FixBoltArtifactFormat(y) = y
          /\ ~HasBoltTag(x) => y = x

\* A text without tags and with blank space at its ends has been sanitized
\* and is answered as it came.
C17_Witness ==
  /\ Sanitized(1)
  /\ ~HasBoltTag(local[1].fullText)
  /\ Trim(local[1].fullText) # local[1].fullText
  /\ res[1].body[1].text = local[1].fullText

\* A Gemini call whose internal call answered 200.
GeminiSucceeded(r) ==
  handler[r] = "gemini" /\ pc[r] = "done" /\ local[r].exit = "success"

\* C18: a Gemini success answers 200 with exactly one candidate of role
\* "model" whose text is the content of the completion, '' when absent, and
\* whose finishReason is the completion's finish reason in upper case, STOP
\* when absent or empty; usageMetadata copies the prompt, completion and total
\* counts, 0 for each one absent.
C18_GeminiSuccessBody ==
  \A r \in Reqs :
    GeminiSucceeded(r)
    => LET c == local[r].completion
           body == res[r].body[1]
           candidate == body.candidates[1]
           reason == IF HasField(c, "finish_reason") THEN c["finish_reason"].v ELSE ""
       IN /\ res[r].statusCode = 200 /\ Len(res[r].body) = 1
          /\ body.kind = "candidates" /\ Len(body.candidates) = 1
          /\ candidate.role = "model"
          /\ candidate.text = (IF HasField(c, "content") THEN c["content"].v ELSE <<>>)
          /\ reason = "" => candidate.finishReason = "STOP"
          /\ reason = "stop" => candidate.finishReason = "STOP"
          /\ reason = "length" => candidate.finishReason = "LENGTH"
          /\ reason = "Tool_Calls" => candidate.finishReason = "TOOL_CALLS"
          /\ \A f \in {"prompt_tokens", "completion_tokens", "total_tokens"} :
               LET copied == CASE f = "prompt_tokens" -> body.usageMetadata.promptTokenCount
                               [] f = "completion_tokens" ->
                                    body.usageMetadata.candidatesTokenCount
                               [] OTHER -> body.usageMetadata.totalTokenCount
               IN copied = (IF HasField(c, f) THEN c[f].v ELSE 0)

\* A completion with a lower-case finish reason and all three counts has been
\* answered.
C18_Witness ==
  /\ GeminiSucceeded(1)
  /\ HasField(local[1].completion, "finish_reason")
  /\ local[1].completion["finish_reason"].v = "length"
  /\ res[1].body[1].candidates[1].finishReason = "LENGTH"
  /\ res[1].body[1].usageMetadata.totalTokenCount = 5

\* A completion without content, finish reason and prompt count has been
\* answered.
C18_WitnessAbsent ==
  /\ GeminiSucceeded(1)
  /\ local[1].completion = NoFields
  /\ res[1].body[1].candidates[1].finishReason = "STOP"

\* C19: whatever way the internal call of a Gemini request fails (a status
\* that is not 2xx, 401, 404, 429 and 503 among them, a network error, a body
\* that does not decode), the answer is exactly one 500 whose error has type
\* server_error and code gemini_conversion_error, and no candidates body.
C19_GeminiFailureIs500 ==
  \A r \in Reqs :
    (handler[r] = "gemini" /\ pc[r] = "done" /\ local[r].upstream \in UpstreamFailures)
    => /\ res[r].statusCode = 500
       /\ res[r].ends = 1
       /\ Len(res[r].body) = 1
       /\ res[r].body[1].kind = "error"
       /\ res[r].body[1].type = "server_error"
       /\ res[r].body[1].code = "gemini_conversion_error"

\* The internal call of a Gemini request was throttled and the request has
\* been answered.
C19_Witness ==
  /\ handler[1] = "gemini" /\ pc[1] = "done"
  /\ local[1].upstream = "429"
  /\ res[1].statusCode = 500

\* The roles of a list of messages handed on, and of the entries of a request.
RolesOf(list) == [i \in 1..Len(list) |-> list[i].role]
EntryRoles(list) == [i \in 1..Len(list) |-> RoleOf(list[i])]

\* C20: the list /v1/messages hands to its internal call starts with exactly
\* one system message, carrying the system string of the request, when that
\* string is not blank, and holds no system message otherwise; then come the
\* user and assistant messages of the request in their original order.
C20_SystemMessageFirst ==
  \A r \in Reqs :
    (handler[r] = "messages" /\ local[r].called)
    => LET sent == local[r].sent
           system == BodySystem(req[r].body.obj)
           blank == \A i \in 1..Len(system) : IsSpace(system[i])
           rest == IF blank THEN sent ELSE Tail(sent)
           turns == SelectSeq(BodyMessages(req[r].body.obj),
                              LAMBDA m : RoleOf(m) \in {"user", "assistant"})
       IN /\ ~blank => sent # <<>> /\ sent[1] = [role |-> "system", text |-> system]
          /\ \A i \in 1..Len(rest) : rest[i].role # "system"
          /\ RolesOf(rest) = EntryRoles(turns)

\* A request with a system string that starts with a blank and two turns has
\* been handed on, and so the system message is followed by both.
C20_Witness ==
  /\ handler[1] = "messages" /\ local[1].called
  /\ BodySystem(req[1].body.obj) = <<" ", "s">>
  /\ Len(local[1].sent) = 3
  /\ local[1].sent[2].role # local[1].sent[3].role

\* The lines of a byte stream that end with a newline, in order.
RECURSIVE LinesOf(_)
LinesOf(bytes) ==
  IF IndexOf(bytes, "\n") < 0 THEN <<>>
  ELSE <<Trim(SubSeq(bytes, 1, IndexOf(bytes, "\n")))>>
         \o LinesOf(Slice(bytes, IndexOf(bytes, "\n") + 1))

\* The payload of a data: line.
PayloadOf(line) == Trim(Slice(line, 1))

\* The fragments the specification gives a list of lines: the non-empty delta
\* text of every data: line that parses, up to the first [DONE].
RECURSIVE FragmentsUntilDone(_)
FragmentsUntilDone(lines) ==
  IF lines = <<>> THEN <<>>
  ELSE LET line == Head(lines)
       IN IF ~StartsWith(line, <<"data:">>) THEN FragmentsUntilDone(Tail(lines))
          ELSE IF PayloadOf(line) = <<"[DONE]">> THEN <<>>
          ELSE IF ParsesAsJson(PayloadOf(line)) /\ Len(PayloadOf(line)) > 2
          THEN <<SubSeq(PayloadOf(line), 2, Len(PayloadOf(line)) - 1)>>
                 \o FragmentsUntilDone(Tail(lines))
          ELSE FragmentsUntilDone(Tail(lines))

\* A streaming /v1/messages request whose upstream stream was read to its end
\* or to the point where the re-framer returned.
StreamDone(r) ==
  /\ handler[r] = "messages" /\ local[r].stream
  /\ pc[r] = "done" /\ local[r].exit = "success"

\* C21: the fragments of a finished stream are, in order, the non-empty delta
\* texts of the data: lines that parse and come before the first [DONE]; a
\* line that is not a data: line or whose payload does not parse yields
\* nothing and does not end the sequence, which only [DONE] or the end of the
\* upstream stream does.
C21_FragmentsUntilDone ==
  \A r \in Reqs :
    StreamDone(r) => local[r].frags = FragmentsUntilDone(LinesOf(local[r].source))

\* C22: whenever handleAiSdkResponse has called model.sendRequest, the list
\* it passed is not empty and the model id of the request is a string that is
\* not empty.
C22_ModelCallNonEmpty ==
  \A r \in Reqs :
    (handler[r] = "responses" /\ local[r].called)
    => /\ local[r].sent # <<>>
       /\ req[r].body.obj["model"].t = "string"
       /\ req[r].body.obj["model"].v # Empty

\* The ways handleAiSdkResponse leaves after the iteration of response.text
\* has ended or thrown.
AfterIteration == {"success", "iteration", "write"}

\* Every cancellation source created is disposed once before the handler is
\* done and not while the model call or the iteration is under way.
SourceDisposedOnce(r) ==
  /\ local[r].sources <= 1
  /\ local[r].disposed <= local[r].sources
  /\ pc[r] \in {"aisdk_sendRequest", "aisdk_iter"}
       => local[r].sources = 1 /\ local[r].disposed = 0
  /\ pc[r] = "done" => local[r].disposed = local[r].sources
  /\ (pc[r] = "done" /\ local[r].exit \in AfterIteration \cup {"sendRequest"})
       => local[r].sources = 1

\* C23 as stated: the cancellation source is disposed exactly once on every
\* way out, and the model response has been disposed once its iteration has
\* ended or thrown.
C23_ResponseAlwaysDisposed ==
  \A r \in Reqs :
    handler[r] = "responses"
    => /\ SourceDisposedOnce(r)
       /\ (pc[r] = "done" /\ local[r].exit \in AfterIteration)
            => local[r].respDisposed = 1

\* C23, amended: the cancellation source is disposed exactly once on every
\* way out; the model response is disposed once when its iteration has ended
\* or thrown if it has a dispose function, and is left alone if it has none
\* or if its iteration never started.
C23_DisposedOnce ==
  \A r \in Reqs :
    handler[r] = "responses"
    => /\ SourceDisposedOnce(r)
       /\ (pc[r] = "done" /\ local[r].exit \in AfterIteration)
            => local[r].respDisposed = (IF local[r].hasDispose THEN 1 ELSE 0)
       /\ ~(pc[r] = "done" /\ local[r].exit \in AfterIteration)
            => local[r].respDisposed = 0

\* The iteration of a response with a dispose function threw; the response
\* and the cancellation source have been disposed and the request answered.
C23_Witness ==
  /\ handler[1] = "responses" /\ pc[1] = "done"
  /\ local[1].exit = "iteration" /\ local[1].hasDispose
  /\ local[1].sources = 1 /\ local[1].disposed = 1 /\ local[1].respDisposed = 1
  /\ res[1].statusCode = 500

\* C24: while the connections serve POST /v1/responses concurrently,
\* state.activeRequests stays between 0 and maxConcurrent and is the number
\* of handleAiSdkResponse invocations that have started and are not done.
C24_CounterBounded ==
  /\ activeRequests >= 0
  /\ activeRequests <= maxConcurrent
  /\ activeRequests =
       Cardinality({r \in Reqs : handler[r] = "responses" /\ pc[r] # "done"})

\* The limit is reached: as many handlers run as are allowed, and a request
\* that arrived on another connection has been answered 429.
C24_Witness ==
  \E r, o \in Reqs :
    /\ activeRequests = maxConcurrent
    /\ handler[r] = "responses" /\ pc[r] # "done"
    /\ o # r /\ handler[o] # "responses"
    /\ pc[o] = "done" /\ res[o].statusCode = 429

\* C25: a request to /v1/messages or to a Gemini generateContent path that the
\* auth middleware has let through is not answered 401 by its adapter, and the
\* credential the adapter takes from it for its internal call is the
\* configured token, whatever headers and key parameter carried it.
C25_AdapterCredential ==
  \A r \in Reqs :
    (/\ handler[r] \in {"messages", "gemini"}
     /\ AuthOutcome(req[r], token) = "next")
    => /\ res[r].statusCode # 401
       /\ local[r].tok = token

\* C26: no response is ended more than once, whichever handler answered and
\* whichever way it left; and a request the Gemini middleware took is not
\* passed on to route matching, whose answer for its path would be a 404
\* after the handler's own.
C26_AnsweredOnce ==
  \A r \in Reqs :
    /\ res[r].ends <= 1
    /\ handler[r] = "gemini"
         => /\ Len(res[r].body) <= 1
            /\ res[r].statusCode # 404

\* The internal call of a Gemini request failed; the catch clause has
\* answered and nothing was written after it.
C26_Witness ==
  /\ handler[1] = "gemini" /\ pc[1] = "done"
  /\ local[1].upstream = "network"
  /\ res[1].ends = 1 /\ Len(res[1].body) = 1

\* C27: the fragments of a finished stream are those the re-framer yields
\* when the whole upstream stream arrives in one read, whatever reads it
\* arrived in: a data: line that arrives in pieces yields the fragment it
\* yields whole, at the same position.
C27_ChunkingIrrelevant ==
  \A r \in Reqs :
    StreamDone(r) => local[r].frags = Drain(local[r].source, <<>>).frags

\* A stream of two data: lines has been read to its end; a read ended inside
\* one of the lines, and both fragments were yielded in order.
C27_Witness ==
  /\ StreamDone(1)
  /\ local[1].split
  /\ local[1].source = LineA \o NL \o LineB \o NL
  /\ local[1].frags = <<<<"a">>, <<"b", "b">>>>

\* C28: at most one server listens at any time, and the server in
\* state.server is the one that listens unless stopServer is closing it; a
\* call of startServer made while another waits for its listen callback
\* leaves no second server listening.
C28_OneListener ==
  /\ Cardinality(life.listening) <= 1
  /\ \A id \in life.listening :
       \/ life.server = id
       \/ \E c \in StartCalls : life.start[c] = id /\ life.server = 0

\* The credentials a request carries in the headers isAuthorized reads.
HeaderCredentials(q) ==
  {Trim(Slice(q.headers[h], 7)) :
     h \in {h \in DOMAIN q.headers :
              h = "authorization" /\ StartsWith(q.headers[h], Bearer)}}
  \cup {Trim(q.headers[h]) :
          h \in DOMAIN q.headers \cap {"x-api-key", "x-goog-api-key"}}

\* C29: whatever isAuthorized has memoized from earlier calls, a request past
\* /health is answered 401 exactly when the token configured at that moment is
\* empty or is none of the credentials in the request's headers; so after a
\* change of the token the old one is rejected and the new one accepted.
C29_VerdictFromHeadersAndToken ==
  [][\A r \in Reqs :
       (pc[r] = "idle" /\ pc'[r] = "done")
       => ((res'[r].statusCode = 401)
             <=> (/\ ~UrlIs(req'[r], PHealth)
                  /\ token = Empty \/ token \notin HeaderCredentials(req'[r])))]_vars

\* C29 witness: the token is now TokB; connection 1 presented TokA while TokA
\* was configured and was served, connection 2 presented TokA after the change
\* and was rejected by isAuthorized.
C29_Witness ==
  /\ token = TokB
  /\ cachedToken = TokB
  /\ pc[1] = "done" /\ res[1].statusCode = 200
  /\ pc[2] = "done" /\ res[2] = WriteUnauthorized(NewRes)
  /\ \A r \in {1, 2} :
       /\ DOMAIN req[r].headers = {"authorization"}
       /\ req[r].headers["authorization"] = Bearer \o TokA

====
